---- MODULE Spec2Model ----
(***************************************************************************)
(* Model of the filename-to-metadata pipeline of jb-miles/filename-parser: *)
(* Trimmer, Tokenizer, DateExtractor, StudioMatcher, StudioCodeFinder,     *)
(* PerformerMatcher, FinalStageExtractor, the parse() driver of yansa.py   *)
(* and the DictionaryLoader cache.  Strings are TLA+ strings; offsets are  *)
(* 0-based as in the Python source.                                        *)
(***************************************************************************)
EXTENDS Integers, Sequences, FiniteSets, TLC

VARIABLES
    pc,        \* position of parse() in the pipeline
    cleaned,   \* the cleaned filename handed to the tokenizer
    existing,  \* the existing_studio argument of parse()
    res,       \* the TokenizationResult passed from stage to stage
    prev,      \* the result the last stage received, as it was on entry
    arg,       \* the object the last stage received, as the call left it
    trStrings, \* Trimmer.trimming_strings
    trText,    \* argument of the running Trimmer.trim call
    trCur,     \* local variable `trimmed` of Trimmer.trim
    trChanged, \* local variable `changed` of Trimmer.trim
    trPc,      \* position inside Trimmer.trim
    trFirst,   \* result of the first trim call, once it has returned
    trPasses,  \* iterations of the while loop made by the running call
    files,     \* state of each rule-table file on disk
    cache,     \* DictionaryLoader._cache: the tables it holds
    built,     \* outcome of the last stage constructor that ran
    preIn,     \* the filename argument of PreTokenizer.process
    prePc,     \* position inside PreTokenizer.process
    preCat,    \* index of the next early-removal category of the loop
    prePrev,   \* result.cleaned before the last step of process
    preCleaned, \* result.cleaned
    preRemoved, \* result.removed_tokens
    parIn,     \* the filename of each concurrent parse() call
    parPc,     \* position of each concurrent parse() call
    parCleaned, \* result.cleaned of each concurrent parse() call
    parConfig, \* what load_dictionary returned to each call
    parIO,     \* what each call did to the file system and to _cache
    parRaised, \* the exception that escaped each call
    batIn,     \* the batch argument of BatchProcessor._process_batch
    batDry,    \* its dry_run argument
    batPc,     \* position inside _process_batch
    batIdx,    \* index of the next item of the loop over the batch
    batUpdates, \* local list update_data
    batSkipped, \* local counter skipped
    batErrors, \* local list errors; `failed` is its length
    batCache,  \* BatchProcessor._studio_name_cache
    batSent, \* the list bulk_update_scenes was called with, None if not called
    mtuParsed, \* the parsed argument of metadata_to_update
    mtuOriginal, \* its original argument
    mtuApproved, \* approved_fields
    mtuMark, \* its mark_organized argument
    mtuPc, \* position inside metadata_to_update
    mtuIdx, \* index of the next field of the loop
    mtuUpdate, \* the dict update
    runIn, \* the update_requests argument of process_updates
    runSize, \* BatchProcessor.batch_size
    runMode, \* process_updates or process_updates_parallel
    runDry, \* the dry_run argument
    runPc, \* position inside the call
    runLeft, \* the batches not yet collected
    runCounts, \* successful_updates, failed_updates, skipped_scenes
    runCache, \* BatchProcessor._studio_name_cache
    runLog, \* what each collected batch counted
    gqlPc, \* position of call_graphql, off while no call runs
    gqlAttempt, \* the loop variable attempt
    gqlLog, \* what each request made so far came to
    gqlSleeps, \* the delays slept so far in seconds
    gqlResult \* the value returned or the error raised

vars == <<pc, cleaned, existing, res, prev, arg,
          trStrings, trText, trCur, trChanged, trPc, trFirst, trPasses,
          files, cache, built,
          preIn, prePc, preCat, prePrev, preCleaned, preRemoved,
          parIn, parPc, parCleaned, parConfig, parIO, parRaised,
          batIn, batDry, batPc, batIdx, batUpdates, batSkipped, batErrors,
          batCache, batSent,
          mtuParsed, mtuOriginal, mtuApproved, mtuMark, mtuPc, mtuIdx, mtuUpdate,
          runIn, runSize, runMode, runDry, runPc, runLeft, runCounts, runCache, runLog,
          gqlPc, gqlAttempt, gqlLog, gqlSleeps, gqlResult>>

pipeVars == <<pc, cleaned, existing, res, prev, arg>>
trimVars == <<trStrings, trText, trCur, trChanged, trPc, trFirst, trPasses>>
loadVars == <<files, cache, built>>
preVars == <<preIn, prePc, preCat, prePrev, preCleaned, preRemoved>>
parVars == <<parIn, parPc, parCleaned, parConfig, parIO, parRaised>>
batVars == <<batIn, batDry, batPc, batIdx, batUpdates, batSkipped, batErrors,
             batCache, batSent>>
mtuVars == <<mtuParsed, mtuOriginal, mtuApproved, mtuMark, mtuPc, mtuIdx, mtuUpdate>>
runVars == <<runIn, runSize, runMode, runDry, runPc, runLeft, runCounts, runCache, runLog>>
gqlVars == <<gqlPc, gqlAttempt, gqlLog, gqlSleeps, gqlResult>>

\* what the actions of one component leave alone
outsidePipe == <<trimVars, loadVars, preVars, parVars, batVars, mtuVars, runVars, gqlVars>>
outsideTrim == <<pipeVars, loadVars, preVars, parVars, batVars, mtuVars, runVars, gqlVars>>
outsideLoad == <<pipeVars, trimVars, preVars, parVars, batVars, mtuVars, runVars, gqlVars>>
outsidePre == <<pipeVars, trimVars, loadVars, parVars, batVars, mtuVars, runVars, gqlVars>>
outsidePar == <<pipeVars, trimVars, preVars, batVars, mtuVars, runVars, gqlVars>>
outsideBat == <<pipeVars, trimVars, loadVars, preVars, parVars, mtuVars, runVars, gqlVars>>
outsideMtu == <<pipeVars, trimVars, loadVars, preVars, parVars, batVars, runVars, gqlVars>>
outsideRun == <<pipeVars, trimVars, loadVars, preVars, parVars, batVars, mtuVars, gqlVars>>
outsideGql == <<pipeVars, trimVars, loadVars, preVars, parVars, batVars, mtuVars, runVars>>

None == "<None>"

(***************************************************************************)
(* Python string primitives                                                *)
(***************************************************************************)
Whitespace == {" ", "\t"}
Digits == {"0", "1", "2", "3", "4", "5", "6", "7", "8", "9"}
UpperLetters == "ABCDEFGHIJKLMNOPQRSTUVWXYZ"
LowerLetters == "abcdefghijklmnopqrstuvwxyz"

Char(s, i) == SubSeq(s, i + 1, i + 1)
Slice(s, a, b) == SubSeq(s, a + 1, b)
From(s, a) == SubSeq(s, a + 1, Len(s))

IsUpper(c) == \E i \in 0..25 : Char(UpperLetters, i) = c
IsLower(c) == \E i \in 0..25 : Char(LowerLetters, i) = c
IsLetter(c) == IsUpper(c) \/ IsLower(c)
IsDigit(c) == c \in Digits
IsAlnum(c) == IsLetter(c) \/ IsDigit(c)
IsWordChar(c) == IsAlnum(c) \/ c = "_"

LowerChar(c) ==
    IF IsUpper(c)
    THEN Char(LowerLetters, CHOOSE i \in 0..25 : Char(UpperLetters, i) = c)
    ELSE c

RECURSIVE Lower(_)
Lower(s) == IF s = "" THEN "" ELSE LowerChar(Char(s, 0)) \o Lower(From(s, 1))

RECURSIVE LStrip(_)
LStrip(s) == IF s # "" /\ Char(s, 0) \in Whitespace THEN LStrip(From(s, 1)) ELSE s

RECURSIVE RStrip(_)
RStrip(s) ==
    IF s # "" /\ Char(s, Len(s) - 1) \in Whitespace
    THEN RStrip(Slice(s, 0, Len(s) - 1))
    ELSE s

Strip(s) == RStrip(LStrip(s))

StartsWith(s, p) == Len(p) <= Len(s) /\ Slice(s, 0, Len(p)) = p
EndsWith(s, p) == Len(p) <= Len(s) /\ From(s, Len(s) - Len(p)) = p
MatchAt(s, p, i) == i + Len(p) <= Len(s) /\ Slice(s, i, i + Len(p)) = p

\* str.find(sub, i): the first offset >= i where sub occurs, or -1
RECURSIVE Find(_, _, _)
Find(s, sub, i) ==
    IF i + Len(sub) > Len(s) THEN -1
    ELSE IF MatchAt(s, sub, i) THEN i
    ELSE Find(s, sub, i + 1)

Contains(s, sub) == Find(s, sub, 0) # -1

\* str.replace(old, new) for a non-empty old: every occurrence, left to right
RECURSIVE Replace(_, _, _)
Replace(s, old, new) ==
    LET i == Find(s, old, 0)
    IN  IF i = -1 THEN s
        ELSE Slice(s, 0, i) \o new \o Replace(From(s, i + Len(old)), old, new)

RECURSIVE Spaces(_)
Spaces(n) == IF n <= 0 THEN "" ELSE " " \o Spaces(n - 1)

DigitVal(c) == CHOOSE d \in 0..9 : ToString(d) = c

RECURSIVE ParseInt(_)
ParseInt(s) ==
    IF s = "" THEN 0
    ELSE 10 * ParseInt(Slice(s, 0, Len(s) - 1)) + DigitVal(Char(s, Len(s) - 1))

AllDigits(s) == s # "" /\ \A i \in 0..(Len(s) - 1) : IsDigit(Char(s, i))

\* number of leading characters of s, from offset i, that satisfy the class
RECURSIVE DigitRun(_, _)
DigitRun(s, i) ==
    IF i < Len(s) /\ IsDigit(Char(s, i)) THEN 1 + DigitRun(s, i + 1) ELSE 0

RECURSIVE SpaceRun(_, _)
SpaceRun(s, i) ==
    IF i < Len(s) /\ Char(s, i) \in Whitespace THEN 1 + SpaceRun(s, i + 1) ELSE 0

RECURSIVE LetterRun(_, _)
LetterRun(s, i) ==
    IF i < Len(s) /\ IsLetter(Char(s, i)) THEN 1 + LetterRun(s, i + 1) ELSE 0

Placeholder(k) == "{token" \o ToString(k) \o "}"

(***************************************************************************)
(* Trimmer (modules/trimmer.py)                                            *)
(***************************************************************************)
\* parser-dictionary.json "trimming_strings" as loaded for the pipeline
TrimmingStrings == <<"-", ".", ",", " ">>

\* first for-loop of a pass: strip each configured string once from the start
RECURSIVE TrimStartLoop(_, _, _)
TrimStartLoop(strs, k, st) ==
    IF k > Len(strs) THEN st
    ELSE IF StartsWith(st.t, strs[k])
         THEN TrimStartLoop(strs, k + 1, [t |-> From(st.t, Len(strs[k])), c |-> TRUE])
         ELSE TrimStartLoop(strs, k + 1, st)

\* trimmed[:-len(trim_str)]; for an empty trim_str this is trimmed[:0]
CutEnd(t, n) == IF n = 0 THEN "" ELSE Slice(t, 0, Len(t) - n)

\* second for-loop of a pass: strip each configured string once from the end
RECURSIVE TrimEndLoop(_, _, _)
TrimEndLoop(strs, k, st) ==
    IF k > Len(strs) THEN st
    ELSE IF EndsWith(st.t, strs[k])
         THEN TrimEndLoop(strs, k + 1, [t |-> CutEnd(st.t, Len(strs[k])), c |-> TRUE])
         ELSE TrimEndLoop(strs, k + 1, st)

\* a pass that never asks for another one: trimming without the re-scan
TrimPassOnce(strs, t) ==
    [t |-> TrimEndLoop(strs, 1, TrimStartLoop(strs, 1, [t |-> t, c |-> FALSE])).t,
     c |-> FALSE]

\* one iteration of the while loop: the string after it and the flag `changed`
TrimPass(strs, t) ==
    TrimEndLoop(strs, 1, TrimStartLoop(strs, 1, [t |-> t, c |-> FALSE]))

\* the while loop run to its end (for lists without the empty string)
RECURSIVE TrimLoop(_, _)
TrimLoop(strs, t) ==
    LET st == TrimPass(strs, t)
    IN  IF st.c THEN TrimLoop(strs, st.t) ELSE st.t

trim(strs, text) == IF text = "" THEN text ELSE TrimLoop(strs, text)

(***************************************************************************)
(* Tokenizer (modules/tokenizer.py)                                        *)
(***************************************************************************)
\* parser-dictionary.json "junk_tokens"
JunkTokens == {"HD"}

Token(v, ty, p) == [value |-> v, type |-> ty, position |-> p]

BracketChars == {"[", "]", "(", ")", "{", "}"}
Closer(c) == IF c = "[" THEN "]" ELSE IF c = "(" THEN ")" ELSE "}"
BracketType(c) ==
    IF c = "[" THEN "bracket" ELSE IF c = "(" THEN "parenthesis" ELSE "curly"

RECURSIVE PlainRun(_, _)
PlainRun(s, i) ==
    IF i < Len(s) /\ Char(s, i) \notin BracketChars THEN 1 + PlainRun(s, i + 1) ELSE 0

\* segment_pattern.finditer: the list of [start, end) spans, left to right
RECURSIVE Segments(_, _)
Segments(s, i) ==
    IF i >= Len(s) THEN <<>>
    ELSE LET c == Char(s, i)
         IN  IF c \in {"[", "(", "{"}
             THEN LET j == Find(s, Closer(c), i + 1)
                  IN  IF j = -1 THEN Segments(s, i + 1)
                      ELSE <<[start |-> i, end |-> j + 1]>> \o Segments(s, j + 1)
             ELSE IF c \in BracketChars THEN Segments(s, i + 1)
             ELSE LET n == PlainRun(s, i)
                  IN  <<[start |-> i, end |-> i + n]>> \o Segments(s, i + n)

\* length of the dash delimiter matched at offset i of seg, or 0
DashAt(seg, i) ==
    IF i + 2 < Len(seg) /\ Char(seg, i) \in Whitespace /\ Char(seg, i + 1) = "-"
          /\ Char(seg, i + 2) \in Whitespace THEN 3
    ELSE IF i + 1 < Len(seg) /\ Char(seg, i) \in Whitespace /\ Char(seg, i + 1) = "-" THEN 2
    ELSE IF i + 1 < Len(seg) /\ Char(seg, i) = "-" /\ Char(seg, i + 1) \in Whitespace THEN 2
    ELSE 0

\* dash_pattern.finditer(segment): the list of [start, end) spans
RECURSIVE DashMatches(_, _)
DashMatches(seg, i) ==
    IF i >= Len(seg) THEN <<>>
    ELSE LET n == DashAt(seg, i)
         IN  IF n > 0 THEN <<[start |-> i, end |-> i + n]>> \o DashMatches(seg, i + n)
             ELSE DashMatches(seg, i + 1)

LeadingWs(part) == Len(part) - Len(LStrip(part))
TrailingWs(part) == Len(part) - Len(RStrip(part))

\* the text tokens of one plain segment (loop over the dash matches and the tail)
RECURSIVE PlainTokens(_, _, _, _, _)
PlainTokens(seg, segStart, dashes, k, lastIdx) ==
    IF k > Len(dashes)
    THEN LET tail == From(seg, lastIdx)
         IN  IF Strip(tail) # ""
             THEN <<Token(Strip(tail), "text", segStart + lastIdx + LeadingWs(tail))>>
             ELSE <<>>
    ELSE LET part == Slice(seg, lastIdx, dashes[k].start)
             here == IF Strip(part) # ""
                     THEN <<Token(Strip(part), "text", segStart + lastIdx + LeadingWs(part))>>
                     ELSE <<>>
         IN  here \o PlainTokens(seg, segStart, dashes, k + 1, dashes[k].end)

SegmentTokens(s, sp) ==
    LET seg == Slice(s, sp.start, sp.end)
        c   == Char(seg, 0)
    IN  IF c \in {"[", "(", "{"}
        THEN LET inner == Slice(seg, 1, Len(seg) - 1)
             IN  IF Strip(inner) # ""
                 THEN <<Token(Strip(inner), BracketType(c), sp.start + 1 + LeadingWs(inner))>>
                 ELSE <<>>
        ELSE PlainTokens(seg, sp.start, DashMatches(seg, 0), 1, 0)

RECURSIVE ExtractOver(_, _, _)
ExtractOver(s, segs, k) ==
    IF k > Len(segs) THEN <<>>
    ELSE SegmentTokens(s, segs[k]) \o ExtractOver(s, segs, k + 1)

_extract_tokens(filename) == ExtractOver(filename, Segments(filename, 0), 1)

_is_junk_token(v) == v \in JunkTokens

\* the placeholder (or {junk}) emitted for the next token, and the counters after it
EmitToken(st, is_junk, lead, trail, open, close) ==
    IF Len(is_junk) > 0 /\ st.ai < Len(is_junk) /\ is_junk[st.ai + 1]
    THEN [parts |-> st.parts \o Spaces(lead) \o open \o "{junk}" \o close \o Spaces(trail),
          ai |-> st.ai + 1, ri |-> st.ri]
    ELSE [parts |-> st.parts \o Spaces(lead) \o open \o Placeholder(st.ri) \o close
                      \o Spaces(trail),
          ai |-> st.ai + 1, ri |-> st.ri + 1]

\* a part between two dash delimiters (or the tail) of a plain segment
EmitPart(st, is_junk, part) ==
    IF part = "" THEN st
    ELSE IF Strip(part) # ""
         THEN EmitToken(st, is_junk, LeadingWs(part), TrailingWs(part), "", "")
         ELSE [st EXCEPT !.parts = st.parts \o part]

RECURSIVE PlainPattern(_, _, _, _, _, _)
PlainPattern(st, is_junk, seg, dashes, k, lastIdx) ==
    IF k > Len(dashes)
    THEN EmitPart(st, is_junk, From(seg, lastIdx))
    ELSE LET st1 == EmitPart(st, is_junk, Slice(seg, lastIdx, dashes[k].start))
             st2 == [st1 EXCEPT !.parts = st1.parts
                                   \o Slice(seg, dashes[k].start, dashes[k].end)]
         IN  PlainPattern(st2, is_junk, seg, dashes, k + 1, dashes[k].end)

SegmentPattern(st, is_junk, s, sp) ==
    LET seg == Slice(s, sp.start, sp.end)
        c   == Char(seg, 0)
    IN  IF c \in {"[", "(", "{"}
        THEN IF Strip(Slice(seg, 1, Len(seg) - 1)) # ""
             THEN EmitToken(st, is_junk, 0, 0, c, Closer(c))
             ELSE st
        ELSE PlainPattern(st, is_junk, seg, DashMatches(seg, 0), 1, 0)

RECURSIVE PatternOver(_, _, _, _, _)
PatternOver(st, is_junk, s, segs, k) ==
    IF k > Len(segs) THEN st
    ELSE PatternOver(SegmentPattern(st, is_junk, s, segs[k]), is_junk, s, segs, k + 1)

_generate_pattern(token_source, is_junk, path, path_sep) ==
    LET st   == PatternOver([parts |-> "", ai |-> 0, ri |-> 0], is_junk, token_source,
                            Segments(token_source, 0), 1)
        base == Strip(st.parts)
    IN  IF path # None /\ path # ""
        THEN "{path}" \o (IF path_sep = None THEN "" ELSE path_sep) \o base
        ELSE base

\* str.rfind of a one-character separator, or -1
RECURSIVE RFind(_, _, _)
RFind(s, c, i) == IF i < 0 THEN -1 ELSE IF Char(s, i) = c THEN i ELSE RFind(s, c, i - 1)

Max2(a, b) == IF a >= b THEN a ELSE b

_extract_path(filepath) ==
    LET last_sep == Max2(RFind(filepath, "/", Len(filepath) - 1),
                         RFind(filepath, "\\", Len(filepath) - 1))
    IN  IF last_sep # -1
        THEN [filename |-> From(filepath, last_sep + 1),
              path |-> Slice(filepath, 0, last_sep),
              sep |-> Char(filepath, last_sep)]
        ELSE [filename |-> filepath, path |-> None, sep |-> None]

_trim_token(token) == Token(trim(TrimmingStrings, token.value), token.type, token.position)

\* step 5 left out: every extracted token is kept (and trimmed)
KeepJunk(tokens) == [i \in 1..Len(tokens) |-> _trim_token(tokens[i])]

RECURSIVE FilterJunk(_)
FilterJunk(tokens) ==
    IF tokens = <<>> THEN <<>>
    ELSE (IF _is_junk_token(Head(tokens).value) THEN <<>> ELSE <<_trim_token(Head(tokens))>>)
         \o FilterJunk(Tail(tokens))

\* a TokenizationResult; an empty function stands for sequence = None
EmptySeq == <<>>
Result(pattern, tokens, studio, title, sequence, group, studio_code) ==
    [pattern |-> pattern, tokens |-> tokens, studio |-> studio, title |-> title,
     sequence |-> sequence, group |-> group, studio_code |-> studio_code]

tokenize(cl) ==
    LET ep         == _extract_path(cl)
        all_tokens == _extract_tokens(ep.filename)
        is_junk    == [i \in 1..Len(all_tokens) |-> _is_junk_token(all_tokens[i].value)]
        pattern    == _generate_pattern(ep.filename, is_junk, ep.path, ep.sep)
        trimmed    == FilterJunk(all_tokens)
        tokens     == IF ep.path # None /\ ep.path # ""
                      THEN <<Token(ep.path, "path", 0)>> \o trimmed
                      ELSE trimmed
    IN  Result(pattern, tokens, None, None, EmptySeq, None, None)

(***************************************************************************)
(* DateExtractor (modules/date_extractor.py)                               *)
(***************************************************************************)
\* date_formats.json as loaded: ordered (regex, type) rules, compiled with
\* re.IGNORECASE after MONTH_PATTERN is replaced by month_pattern
\*   compact         (?P<year>(?:19|20)\d{2})(?P<month>\d{2})(?P<day>\d{2})
\*   day_month_year  (?P<day>\d{2}) (?P<month_name>MONTH_PATTERN) (?P<year>\d{4})
\*   year            (?P<year>(?:19|20)\d{2})
DatePatterns == <<"compact", "day_month_year", "year">>

\* month_pattern "jan|sep" and the month_names table, which has no "sep"
MonthPattern == {"jan", "sep"}
MonthNames == [key \in {"jan"} |-> "1"]

RuleWidth(rule) ==
    IF rule = "compact" THEN 8 ELSE IF rule = "day_month_year" THEN 11 ELSE 4

\* the rule's regex matches at offset i of value
RuleMatchesAt(rule, value, i) ==
    IF rule = "day_month_year"
    THEN /\ DigitRun(value, i) >= 2
         /\ Char(value, i + 2) = " "
         /\ Lower(Slice(value, i + 3, i + 6)) \in MonthPattern
         /\ Char(value, i + 6) = " "
         /\ DigitRun(value, i + 7) >= 4
    ELSE Slice(value, i, i + 2) \in {"19", "20"} /\ DigitRun(value, i) >= RuleWidth(rule)

\* pattern.search(value): offset of the leftmost match of the rule, or -1
RECURSIVE DateSearch(_, _, _)
DateSearch(rule, value, i) ==
    IF i + RuleWidth(rule) > Len(value) THEN -1
    ELSE IF RuleMatchesAt(rule, value, i) THEN i
    ELSE DateSearch(rule, value, i + 1)

\* str.zfill(2)
ZFill2(s) == IF Len(s) < 2 THEN "0" \o s ELSE s

_month_name_to_number(month_name) ==
    LET key == Lower(Strip(month_name))
    IN  IF month_name # "" /\ key \in DOMAIN MonthNames /\ MonthNames[key] # ""
        THEN ZFill2(MonthNames[key])
        ELSE None

_normalize_date(rule, date_str) ==
    IF rule = "compact"
    THEN Slice(date_str, 0, 4) \o "-" \o ZFill2(Slice(date_str, 4, 6)) \o "-"
            \o ZFill2(Slice(date_str, 6, 8))
    ELSE IF rule = "day_month_year"
    THEN IF _month_name_to_number(Slice(date_str, 3, 6)) # None
         THEN Slice(date_str, 7, 11) \o "-"
                 \o _month_name_to_number(Slice(date_str, 3, 6)) \o "-"
                 \o ZFill2(Slice(date_str, 0, 2))
         ELSE None
    ELSE IF rule = "year" THEN Slice(date_str, 0, 4)
    ELSE None

\* the DateMatch of one token value (first matching rule), or found = FALSE
RECURSIVE DateMatchOf(_, _)
DateMatchOf(value, k) ==
    IF k > Len(DatePatterns) THEN [found |-> FALSE]
    ELSE LET i == DateSearch(DatePatterns[k], value, 0)
         IN  IF i = -1 THEN DateMatchOf(value, k + 1)
             ELSE LET e == i + RuleWidth(DatePatterns[k])
                  IN  [found |-> TRUE, start |-> i, end |-> e,
                       date_str |-> Slice(value, i, e),
                       normalized_date |-> _normalize_date(DatePatterns[k], Slice(value, i, e))]

HasPath(tokens) == \E i \in 1..Len(tokens) : tokens[i].type = "path"

RECURSIVE NonPath(_)
NonPath(tokens) ==
    IF tokens = <<>> THEN <<>>
    ELSE (IF Head(tokens).type = "path" THEN <<>> ELSE <<Head(tokens)>>)
         \o NonPath(Tail(tokens))

\* DateMatch per non-path token index (0-based), as a sequence
_find_dates_in_tokens(tokens) ==
    LET np == NonPath(tokens)
    IN  [i \in 1..Len(np) |-> DateMatchOf(np[i].value, 1)]

_split_token_at_date(token, dm) ==
    LET value  == token.value
        before == IF dm.start > 0 THEN Strip(Slice(value, 0, dm.start)) ELSE ""
        after  == IF dm.end < Len(value) THEN Strip(From(value, dm.end)) ELSE ""
        nv     == IF dm.normalized_date # None /\ dm.normalized_date # ""
                  THEN dm.normalized_date ELSE dm.date_str
    IN  (IF before # "" THEN <<Token(before, token.type, token.position)>> ELSE <<>>)
        \o <<Token(nv, "date", token.position + dm.start)>>
        \o (IF after # "" THEN <<Token(after, token.type, token.position + dm.end)>> ELSE <<>>)

RECURSIVE SplitDates(_, _, _)
SplitDates(tokens, matches, token_idx) ==
    IF tokens = <<>> THEN <<>>
    ELSE LET t == Head(tokens)
         IN  IF t.type = "path" THEN <<t>> \o SplitDates(Tail(tokens), matches, token_idx)
             ELSE (IF matches[token_idx + 1].found
                   THEN _split_token_at_date(t, matches[token_idx + 1])
                   ELSE <<t>>)
                  \o SplitDates(Tail(tokens), matches, token_idx + 1)

_split_tokens_with_dates(tokens, matches) == SplitDates(tokens, matches, 0)

\* the replacement of a placeholder when the tokens added before it are not counted
DateReplacementUnshifted(original_tokens, matches, token_idx, shift) ==
    LET dm == matches[token_idx + 1]
    IN  IF dm.found
        THEN LET value == original_tokens[token_idx + 1
                              + (IF HasPath(original_tokens) THEN 1 ELSE 0)].value
                 has_before == dm.start > 0 /\ Strip(Slice(value, 0, dm.start)) # ""
                 has_after  == dm.end < Len(value) /\ Strip(From(value, dm.end)) # ""
             IN  [text |-> (IF has_before THEN Placeholder(token_idx) \o " " ELSE "")
                              \o "{date}"
                              \o (IF has_after
                                  THEN " " \o Placeholder(token_idx + (IF has_before THEN 2 ELSE 1))
                                  ELSE ""),
                  shift |-> 0]
        ELSE [text |-> Placeholder(token_idx), shift |-> 0]

\* the replacement text of placeholder token_idx and the shift after it
DateReplacement(original_tokens, matches, token_idx, shift) ==
    LET dm == matches[token_idx + 1]
    IN  IF dm.found
        THEN LET value == original_tokens[token_idx + 1
                              + (IF HasPath(original_tokens) THEN 1 ELSE 0)].value
                 has_before == dm.start > 0 /\ Strip(Slice(value, 0, dm.start)) # ""
                 has_after  == dm.end < Len(value) /\ Strip(From(value, dm.end)) # ""
             IN  IF has_before /\ has_after
                 THEN [text |-> Placeholder(token_idx + shift) \o " {date} "
                                   \o Placeholder(token_idx + shift + 2),
                       shift |-> shift + 2]
                 ELSE IF has_before
                 THEN [text |-> Placeholder(token_idx + shift) \o " {date}", shift |-> shift + 1]
                 ELSE IF has_after
                 THEN [text |-> "{date} " \o Placeholder(token_idx + shift + 1),
                       shift |-> shift + 1]
                 ELSE [text |-> "{date}", shift |-> shift]
        ELSE [text |-> Placeholder(token_idx + shift), shift |-> shift]

\* token_replacements, built for token_idx = 0 .. non_path_count - 1
RECURSIVE DateReplacements(_, _, _, _, _)
DateReplacements(original_tokens, matches, token_idx, n, shift) ==
    IF token_idx >= n THEN <<>>
    ELSE LET r == DateReplacement(original_tokens, matches, token_idx, shift)
         IN  <<r.text>> \o DateReplacements(original_tokens, matches, token_idx + 1, n, r.shift)

\* the replacements applied from the highest old index down to 0
RECURSIVE ApplyDescending(_, _, _)
ApplyDescending(pattern, repl, old_idx) ==
    IF old_idx < 0 THEN pattern
    ELSE ApplyDescending(Replace(pattern, Placeholder(old_idx), repl[old_idx + 1]),
                         repl, old_idx - 1)

AnyFound(matches) == \E i \in 1..Len(matches) : matches[i].found

DateUpdatePattern(pattern, matches, original_tokens) ==
    IF pattern = "" \/ ~AnyFound(matches) THEN pattern
    ELSE LET n == Len(NonPath(original_tokens))
         IN  ApplyDescending(pattern,
                             DateReplacements(original_tokens, matches, 0, n, 0), n - 1)

DateProcess(result) ==
    LET matches == _find_dates_in_tokens(result.tokens)
    IN  IF ~AnyFound(matches) THEN result
        ELSE Result(DateUpdatePattern(result.pattern, matches, result.tokens),
                    _split_tokens_with_dates(result.tokens, matches),
                    result.studio, result.title, result.sequence, result.group,
                    result.studio_code)

(***************************************************************************)
(* StudioMatcher (modules/studio_matcher.py)                               *)
(***************************************************************************)
\* self.studios as built by _load_studios, in insertion order:
\* lower-case name/alias/abbreviation -> canonical name
Studios == << [key |-> "acme",    canonical |-> "Acme"],
              [key |-> "ac",      canonical |-> "Acme"],
              [key |-> "acme x",  canonical |-> "Acme X"],
              [key |-> "bang",    canonical |-> "Bang"],
              [key |-> "unknown", canonical |-> "Unknown"] >>

\* self.exact_only_keys ("Bang^" in studios.json)
ExactOnlyKeys == {"bang"}

InStudios(k) == \E i \in 1..Len(Studios) : Studios[i].key = k
StudioOf(k) == Studios[CHOOSE i \in 1..Len(Studios) : Studios[i].key = k].canonical

Truthy(x) == x # None /\ x # ""

\* indices (1-based, path included) of the tokens of a match dictionary, in order
FirstIn(S) == CHOOSE i \in S : \A j \in S : i <= j

\* real (non-path) index of the token at list index i
RealIndex(tokens, i) == Cardinality({j \in 1..(i - 1) : tokens[j].type # "path"})

\* --- exact pass --------------------------------------------------------
ExactMatches(tokens) ==
    {i \in 1..Len(tokens) : tokens[i].type # "path" /\ InStudios(Lower(tokens[i].value))}

\* pattern.replace over the replacements dictionary, in insertion order
RECURSIVE ReplaceMarked(_, _, _, _, _)
ReplaceMarked(pattern, tokens, marked, i, marker) ==
    IF i > Len(tokens) THEN pattern
    ELSE IF i \in marked
         THEN ReplaceMarked(Replace(pattern, Placeholder(RealIndex(tokens, i)), marker),
                            tokens, marked, i + 1, marker)
         ELSE ReplaceMarked(pattern, tokens, marked, i + 1, marker)

\* a rebuild that leaves the placeholders of the matched tokens in the pattern
StudioRebuildPatternKept(result, studio_matches) == result.pattern

StudioRebuildPattern(result, studio_matches) ==
    IF result.pattern = "" THEN result.pattern
    ELSE ReplaceMarked(result.pattern, result.tokens, studio_matches, 1, "{studio}")

StudioUpdateTokensAndPattern(result, studio_matches) ==
    LET new_tokens == [i \in 1..Len(result.tokens) |->
                          IF i \in studio_matches
                          THEN Token(StudioOf(Lower(result.tokens[i].value)), "studio",
                                     result.tokens[i].position)
                          ELSE result.tokens[i]]
        first == StudioOf(Lower(result.tokens[FirstIn(studio_matches)].value))
    IN  Result(StudioRebuildPattern(result, studio_matches), new_tokens,
               IF Truthy(result.studio) THEN result.studio ELSE first,
               result.title, result.sequence, result.group, result.studio_code)

StudioProcess(result) ==
    IF result.tokens = <<>> \/ result.pattern = "" THEN result
    ELSE IF ExactMatches(result.tokens) # {}
         THEN StudioUpdateTokensAndPattern(result, ExactMatches(result.tokens))
         ELSE result

\* --- token splitting shared by the two fallbacks -----------------------
\* split[i] is the list of [value, is_studio] parts replacing token i, or <<>>
\* when token i is copied.  Returns new_tokens and token_mapping (by real index).
RECURSIVE SplitWalk(_, _, _, _, _)
SplitWalk(tokens, split, i, new_tokens, mapping) ==
    IF i > Len(tokens) THEN [tokens |-> new_tokens, mapping |-> mapping]
    ELSE LET t  == tokens[i]
             n0 == Len(NonPath(new_tokens))
         IN  IF t.type = "path"
             THEN SplitWalk(tokens, split, i + 1, Append(new_tokens, t), mapping)
             ELSE IF split[i] # <<>>
             THEN LET parts == split[i]
                      toks  == [k \in 1..Len(parts) |->
                                   Token(parts[k].value,
                                         IF parts[k].is_studio THEN "studio" ELSE "text",
                                         t.position)]
                      info  == [k \in 1..Len(parts) |->
                                   [new_idx |-> n0 + k - 1, is_studio |-> parts[k].is_studio]]
                  IN  SplitWalk(tokens, split, i + 1, new_tokens \o toks,
                                Append(mapping, info))
             ELSE SplitWalk(tokens, split, i + 1, Append(new_tokens, t),
                            Append(mapping, <<[new_idx |-> n0, is_studio |-> FALSE]>>))

RECURSIVE JoinParts(_, _, _)
JoinParts(info, k, sep) ==
    IF k > Len(info) THEN ""
    ELSE (IF info[k].is_studio THEN "{studio}" ELSE Placeholder(info[k].new_idx))
         \o (IF k < Len(info) THEN sep ELSE "")
         \o JoinParts(info, k + 1, sep)

\* `for old_pat, new_pat in replacements.items(): pattern = pattern.replace(...)`
\* the dictionary is in insertion order: old index 0, 1, 2, ...
RECURSIVE ApplyAscending(_, _, _, _)
ApplyAscending(pattern, mapping, old_idx, sep) ==
    IF old_idx >= Len(mapping) THEN pattern
    ELSE ApplyAscending(Replace(pattern, Placeholder(old_idx),
                                JoinParts(mapping[old_idx + 1], 1, sep)),
                        mapping, old_idx + 1, sep)

_rebuild_pattern_after_split(pattern, token_mapping) ==
    IF pattern = "" THEN pattern ELSE ApplyAscending(pattern, token_mapping, 0, "-")

_rebuild_pattern_after_substring_split(pattern, token_mapping) ==
    IF pattern = "" THEN pattern ELSE ApplyAscending(pattern, token_mapping, 0, "")

\* --- dash fallback ------------------------------------------------------
\* value.split('-', 1)
DashParts(value) ==
    LET i == Find(value, "-", 0)
    IN  <<Slice(value, 0, i), From(value, i + 1)>>

DashCandidate(part) == Len(Strip(part)) >= 2 /\ InStudios(Lower(Strip(part)))

\* index of the part that is the studio (0 or 1), or -1
DashStudioPart(token) ==
    IF token.type # "text" \/ ~Contains(token.value, "-") \/ Contains(token.value, " - ")
    THEN -1
    ELSE LET parts == DashParts(token.value)
         IN  IF DashCandidate(parts[1]) THEN 0
             ELSE IF DashCandidate(parts[2]) THEN 1
             ELSE -1

DashSplitOf(token) ==
    LET sp    == DashStudioPart(token)
        parts == DashParts(token.value)
        one(k) == IF Strip(parts[k]) = "" THEN <<>>
                  ELSE IF k - 1 = sp
                  THEN <<[value |-> StudioOf(Lower(Strip(parts[k]))), is_studio |-> TRUE]>>
                  ELSE <<[value |-> Strip(parts[k]), is_studio |-> FALSE]>>
    IN  IF sp = -1 THEN <<>> ELSE one(1) \o one(2)

FirstStudioOf(split) ==
    LET i == FirstIn({j \in 1..Len(split) : split[j] # <<>>})
        k == CHOOSE k \in 1..Len(split[i]) : split[i][k].is_studio
    IN  split[i][k].value

SplitResult(result, split, sep) ==
    LET w == SplitWalk(result.tokens, split, 1, <<>>, <<>>)
    IN  Result(IF sep = "-" THEN _rebuild_pattern_after_split(result.pattern, w.mapping)
               ELSE _rebuild_pattern_after_substring_split(result.pattern, w.mapping),
               w.tokens,
               IF Truthy(result.studio) THEN result.studio ELSE FirstStudioOf(split),
               result.title, result.sequence, result.group, result.studio_code)

process_dash_fallback(result) ==
    IF Truthy(result.studio) THEN result
    ELSE IF result.tokens = <<>> \/ result.pattern = "" THEN result
    ELSE LET split == [i \in 1..Len(result.tokens) |-> DashSplitOf(result.tokens[i])]
         IN  IF \E i \in 1..Len(split) : split[i] # <<>>
             THEN SplitResult(result, split, "-")
             ELSE result

\* --- substring fallback -------------------------------------------------
\* the loop over self.studios.items(): the first key of maximal length found
RECURSIVE LongestMatch(_, _, _)
LongestMatch(token_lower, k, best) ==
    IF k > Len(Studios) THEN best
    ELSE LET key == Studios[k].key
             pos == Find(token_lower, key, 0)
         IN  IF Len(key) < 3 \/ key \in ExactOnlyKeys \/ pos = -1 \/ Len(key) <= best.length
             THEN LongestMatch(token_lower, k + 1, best)
             ELSE LongestMatch(token_lower, k + 1,
                               [match |-> Studios[k].canonical, length |-> Len(key),
                                start |-> pos, end |-> pos + Len(key)])

SubstringSplitOf(token) ==
    IF token.type # "text" THEN <<>>
    ELSE LET m == LongestMatch(Lower(token.value), 1,
                               [match |-> None, length |-> 0, start |-> -1, end |-> -1])
         IN  IF ~Truthy(m.match) THEN <<>>
             ELSE LET prefix == IF m.start > 0 THEN Slice(token.value, 0, m.start) ELSE ""
                      suffix == IF m.end < Len(token.value) THEN From(token.value, m.end)
                                ELSE ""
                  IN  (IF Strip(prefix) # ""
                       THEN <<[value |-> Strip(prefix), is_studio |-> FALSE]>> ELSE <<>>)
                      \o <<[value |-> m.match, is_studio |-> TRUE]>>
                      \o (IF Strip(suffix) # ""
                          THEN <<[value |-> Strip(suffix), is_studio |-> FALSE]>> ELSE <<>>)

process_partial_match_fallback(result) ==
    IF Truthy(result.studio) THEN result
    ELSE IF result.tokens = <<>> \/ result.pattern = "" THEN result
    ELSE LET split == [i \in 1..Len(result.tokens) |-> SubstringSplitOf(result.tokens[i])]
         IN  IF \E i \in 1..Len(split) : split[i] # <<>>
             THEN SplitResult(result, split, "")
             ELSE result

(***************************************************************************)
(* StudioCodeFinder (modules/studio_code_finder.py)                        *)
(***************************************************************************)
\* self.studio_code_patterns as loaded from studio_codes.json, in order:
\*   "AC####"  studio Acme,  can_set,  no suffix   -> ^AC\d{4}$
\*   "####"    studio Scary, requires, allow_suffix -> ^(\d{4})(?:[^A-Za-z0-9].*)?$
StudioCodePatterns ==
    << [studio |-> "Acme", prefix |-> "ac", digits |-> 4, allow_suffix |-> FALSE,
        studio_relationship |-> "can_set", normalize |-> {"uppercase"}],
       [studio |-> "Scary", prefix |-> "", digits |-> 4, allow_suffix |-> TRUE,
        studio_relationship |-> "requires", normalize |-> {}] >>

\* regex.match(value) of a compiled rule (IGNORECASE, anchored): end offset of the
\* captured code, or -1 when the rule does not match
CodeRegexMatch(rule, value) ==
    LET p == Len(rule.prefix)
        e == p + rule.digits
    IN  IF Len(value) >= e /\ Lower(Slice(value, 0, p)) = rule.prefix
           /\ DigitRun(value, p) >= rule.digits
        THEN IF Len(value) = e THEN e
             ELSE IF rule.allow_suffix /\ ~IsAlnum(Char(value, e)) THEN e
             ELSE -1
        ELSE -1

RECURSIVE LStripChars(_, _)
LStripChars(s, cs) == IF s # "" /\ Char(s, 0) \in cs THEN LStripChars(From(s, 1), cs) ELSE s

RECURSIVE KeepDigits(_)
KeepDigits(s) ==
    IF s = "" THEN ""
    ELSE (IF IsDigit(Char(s, 0)) THEN Char(s, 0) ELSE "") \o KeepDigits(From(s, 1))

UpperChar(c) ==
    IF IsLower(c)
    THEN Char(UpperLetters, CHOOSE i \in 0..25 : Char(LowerLetters, i) = c)
    ELSE c

RECURSIVE Upper(_)
Upper(s) == IF s = "" THEN "" ELSE UpperChar(Char(s, 0)) \o Upper(From(s, 1))

RECURSIVE ZFill(_, _)
ZFill(s, n) == IF Len(s) < n THEN ZFill("0" \o s, n) ELSE s

\* ^(\d{3,5})\s+(\d{2})$
NumericPair(code) ==
    LET a == DigitRun(code, 0)
        w == SpaceRun(code, a)
    IN  IF a >= 3 /\ a <= 5 /\ w >= 1 /\ DigitRun(code, a + w) = 2 /\ a + w + 2 = Len(code)
        THEN ZFill(Slice(code, 0, a), 5) \o From(code, a + w)
        ELSE None

\* re.sub(r'^[A-Za-z]+[-_\s]*', '', code)
StripPrefixLetters(code) ==
    LET n == LetterRun(code, 0)
    IN  IF n = 0 THEN code
        ELSE LStripChars(From(code, n), {"-", "_"} \cup Whitespace)

_normalize_code(code_value, normalize) ==
    LET code == Strip(code_value)
        c1 == IF "strip_prefix_letters" \in normalize THEN StripPrefixLetters(code) ELSE code
        c2 == IF "replace_underscores_with_dash" \in normalize
              THEN Replace(Replace(c1, "_", "-"), " ", "-") ELSE c1
        c3 == IF "digits_only" \in normalize THEN KeepDigits(c2) ELSE c2
        c4 == IF "strip_leading_zeros" \in normalize
              THEN (IF LStripChars(c3, {"0"}) = "" THEN "0" ELSE LStripChars(c3, {"0"}))
              ELSE c3
        c5 == IF "uppercase" \in normalize THEN Upper(c4) ELSE c4
    IN  IF normalize = {} THEN code
        ELSE IF "normalize_numeric_pair" \in normalize /\ NumericPair(code) # None
        THEN NumericPair(code)
        ELSE c5

RECURSIVE MatchStudioCodeFrom(_, _, _)
MatchStudioCodeFrom(token_value, current_studio, k) ==
    IF k > Len(StudioCodePatterns) THEN [found |-> FALSE]
    ELSE LET rule == StudioCodePatterns[k]
             current_studio_normalized ==
                 IF current_studio = None THEN "" ELSE Lower(Strip(current_studio))
             required == Lower(Strip(rule.studio))
             skip == rule.studio_relationship = "requires"
                        /\ (current_studio_normalized = ""
                            \/ (required # "" /\ required # current_studio_normalized))
             e == CodeRegexMatch(rule, Strip(token_value))
         IN  IF skip \/ e = -1
             THEN MatchStudioCodeFrom(token_value, current_studio, k + 1)
             ELSE LET raw_code == Slice(Strip(token_value), 0, e)
                      normalized_code == _normalize_code(raw_code, rule.normalize)
                  IN  [found |-> TRUE, studio |-> rule.studio,
                       code |-> IF normalized_code # "" THEN normalized_code ELSE raw_code,
                       code_end |-> e]

\* the rules tried as if every relationship were can_set
MatchStudioCodeAnyRelationship(token_value, current_studio) ==
    MatchStudioCodeFrom(token_value, "Scary", 1)

_match_studio_code(token_value, current_studio) ==
    MatchStudioCodeFrom(token_value, current_studio, 1)

\* re.sub(r"^[^A-Za-z0-9]+", "", remainder).strip(), or None
_extract_suffix_after_code(token_value, code_end) ==
    IF token_value = "" \/ code_end <= 0 \/ code_end >= Len(token_value) THEN None
    ELSE LET rest == From(token_value, code_end)
             RECURSIVE Skip(_)
             Skip(r) == IF r # "" /\ ~IsAlnum(Char(r, 0)) THEN Skip(From(r, 1)) ELSE r
             remainder == Strip(Skip(rest))
         IN  IF remainder = "" THEN None ELSE remainder

\* new_tokens and token_mapping of StudioCodeFinder._update_tokens_and_pattern
RECURSIVE CodeWalk(_, _, _, _, _)
CodeWalk(tokens, matches, i, new_tokens, mapping) ==
    IF i > Len(tokens) THEN [tokens |-> new_tokens, mapping |-> mapping]
    ELSE LET t  == tokens[i]
             n0 == Len(NonPath(new_tokens))
         IN  IF t.type = "path"
             THEN CodeWalk(tokens, matches, i + 1, Append(new_tokens, t), mapping)
             ELSE IF matches[i].found
             THEN LET remainder == _extract_suffix_after_code(t.value, matches[i].code_end)
                      code_tok  == Token(matches[i].code, "studio_code", t.position)
                  IN  IF remainder # None
                      THEN CodeWalk(tokens, matches, i + 1,
                                    new_tokens \o <<code_tok, Token(remainder, "text", t.position)>>,
                                    Append(mapping, <<[new_idx |-> n0, is_code |-> TRUE],
                                                      [new_idx |-> n0 + 1, is_code |-> FALSE]>>))
                      ELSE CodeWalk(tokens, matches, i + 1, Append(new_tokens, code_tok),
                                    Append(mapping, <<[new_idx |-> n0, is_code |-> TRUE]>>))
             ELSE CodeWalk(tokens, matches, i + 1, Append(new_tokens, t),
                           Append(mapping, <<[new_idx |-> n0, is_code |-> FALSE]>>))

RECURSIVE JoinCodeParts(_, _)
JoinCodeParts(info, k) ==
    IF k > Len(info) THEN ""
    ELSE (IF info[k].is_code THEN "{studio_code}" ELSE Placeholder(info[k].new_idx))
         \o (IF k < Len(info) THEN " " ELSE "")
         \o JoinCodeParts(info, k + 1)

\* re.sub(r"\{token(\d+)\}", f, pattern): one left-to-right pass; repl[idx + 1] is
\* f's text for index idx, None (or idx out of range) leaves the match as it is
RECURSIVE SubPlaceholders(_, _)
SubPlaceholders(pattern, repl) ==
    LET i == Find(pattern, "{token", 0)
    IN  IF i = -1 THEN pattern
        ELSE LET n == DigitRun(pattern, i + 6)
                 e == i + 6 + n
             IN  IF n >= 1 /\ e < Len(pattern) /\ Char(pattern, e) = "}"
                 THEN LET idx == ParseInt(Slice(pattern, i + 6, e))
                          new == IF idx + 1 <= Len(repl) /\ repl[idx + 1] # None
                                 THEN repl[idx + 1]
                                 ELSE Slice(pattern, i, e + 1)
                      IN  Slice(pattern, 0, i) \o new \o SubPlaceholders(From(pattern, e + 1), repl)
                 ELSE Slice(pattern, 0, i + 1) \o SubPlaceholders(From(pattern, i + 1), repl)

CodeRebuildPatternAfterSplit(pattern, token_mapping) ==
    IF pattern = "" THEN ""
    ELSE SubPlaceholders(pattern,
             [k \in 1..Len(token_mapping) |-> JoinCodeParts(token_mapping[k], 1)])

CodeUpdateTokensAndPattern(result, matches) ==
    LET w == CodeWalk(result.tokens, matches, 1, <<>>, <<>>)
        found == {i \in 1..Len(matches) : matches[i].found}
        withStudio == {i \in found : Truthy(matches[i].studio)}
        studio_value == IF Truthy(result.studio) THEN result.studio
                        ELSE IF withStudio # {} THEN matches[FirstIn(withStudio)].studio
                        ELSE result.studio
        studio_code_value == IF Truthy(result.studio_code) THEN result.studio_code
                             ELSE matches[FirstIn(found)].code
    IN  Result(CodeRebuildPatternAfterSplit(result.pattern, w.mapping), w.tokens,
               studio_value, result.title, result.sequence, result.group, studio_code_value)

CodeProcess(result) ==
    IF result.tokens = <<>> \/ result.pattern = "" THEN result
    ELSE LET matches == [i \in 1..Len(result.tokens) |->
                            IF result.tokens[i].type \in {"path", "studio"}
                            THEN [found |-> FALSE]
                            ELSE _match_studio_code(result.tokens[i].value, result.studio)]
         IN  IF \E i \in 1..Len(matches) : matches[i].found
             THEN CodeUpdateTokensAndPattern(result, matches)
             ELSE result

(***************************************************************************)
(* PerformerMatcher (modules/performer_matcher.py)                         *)
(***************************************************************************)
\* self.non_performer_words as loaded from parser-dictionary.json
NonPerformerWords == {"scene", "the", "and", "part"}

IsAndAt(s, i) == i + 3 <= Len(s) /\ Lower(Slice(s, i, i + 3)) = "and"

\* re.sub(r'\s+(?:and)\s+', ', ', value, flags=re.IGNORECASE)
RECURSIVE SubAnd(_, _)
SubAnd(s, i) ==
    IF i >= Len(s) THEN ""
    ELSE LET w == SpaceRun(s, i)
         IN  IF w = 0 THEN Char(s, i) \o SubAnd(s, i + 1)
             ELSE IF IsAndAt(s, i + w) /\ SpaceRun(s, i + w + 3) >= 1
             THEN ", " \o SubAnd(s, i + w + 3 + SpaceRun(s, i + w + 3))
             ELSE Slice(s, i, i + w) \o SubAnd(s, i + w)

\* re.sub(r'\s*c\s*', ', ', value) for a one-character separator c
RECURSIVE SubSep(_, _, _)
SubSep(s, c, i) ==
    IF i >= Len(s) THEN ""
    ELSE LET w == SpaceRun(s, i)
         IN  IF i + w < Len(s) /\ Char(s, i + w) = c
             THEN ", " \o SubSep(s, c, i + w + 1 + SpaceRun(s, i + w + 1))
             ELSE IF w = 0 THEN Char(s, i) \o SubSep(s, c, i + 1)
             ELSE Slice(s, i, i + w) \o SubSep(s, c, i + w)

\* re.sub(r'\s+', ' ', value)
RECURSIVE CollapseSpaces(_, _)
CollapseSpaces(s, i) ==
    IF i >= Len(s) THEN ""
    ELSE LET w == SpaceRun(s, i)
         IN  IF w = 0 THEN Char(s, i) \o CollapseSpaces(s, i + 1)
             ELSE " " \o CollapseSpaces(s, i + w)

RECURSIVE RStripChars(_, _)
RStripChars(s, cs) ==
    IF s # "" /\ Char(s, Len(s) - 1) \in cs
    THEN RStripChars(Slice(s, 0, Len(s) - 1), cs)
    ELSE s

StripChars(s, cs) == RStripChars(LStripChars(s, cs), cs)

_normalize_performer_list(token_value) ==
    LET v0 == Strip(token_value)
        v1 == SubAnd(v0, 0)
        v2 == SubSep(v1, "&", 0)
        v3 == SubSep(v2, ",", 0)
        v4 == CollapseSpaces(v3, 0)
    IN  StripChars(v4, {" ", ","})

\* offsets at which [a-zA-Z]+(?:\s+[a-zA-Z]+)? can end when it starts at i
NameEnds(s, i) ==
    LET n == LetterRun(s, i)
        w == SpaceRun(s, i + n)
        m == LetterRun(s, i + n + w)
    IN  IF n = 0 THEN {}
        ELSE {i + n} \cup (IF w >= 1 /\ m >= 1 THEN {i + n + w + m} ELSE {})

\* offsets reached from any offset of S by one  \s*,\s*NAME
CommaStep(s, S) ==
    UNION { LET q == p + SpaceRun(s, p)
            IN  IF q < Len(s) /\ Char(s, q) = ","
                THEN NameEnds(s, q + 1 + SpaceRun(s, q + 1))
                ELSE {} : p \in S }

\* (?:\s*,\s*NAME)*
RECURSIVE CommaStar(_, _)
CommaStar(s, S) ==
    LET T == S \cup CommaStep(s, S)
    IN  IF T = S THEN S ELSE CommaStar(s, T)

\* \s+and\s+NAME
AndStep(s, S) ==
    UNION { LET w  == SpaceRun(s, p)
                w2 == SpaceRun(s, p + w + 3)
            IN  IF w >= 1 /\ IsAndAt(s, p + w) /\ w2 >= 1
                THEN NameEnds(s, p + w + 3 + w2)
                ELSE {} : p \in S }

\* \s*&\s*NAME
AmpStep(s, S) ==
    UNION { LET q == p + SpaceRun(s, p)
            IN  IF q < Len(s) /\ Char(s, q) = "&"
                THEN NameEnds(s, q + 1 + SpaceRun(s, q + 1))
                ELSE {} : p \in S }

\* the six (regex, separator_type) pairs of _is_performer_pattern, in order
PerformerPatterns == <<"and", "&", "comma", "and", "&", "comma">>

PerformerRegexMatch(k, v) ==
    LET N == NameEnds(v, 0)
        E == CASE k = 1 -> AndStep(v, CommaStar(v, N))
               [] k = 2 -> AmpStep(v, CommaStar(v, N))
               [] k = 3 -> CommaStar(v, CommaStep(v, N))
               [] k = 4 -> AndStep(v, N)
               [] k = 5 -> AmpStep(v, N)
               [] OTHER -> CommaStep(v, N)
    IN  Len(v) \in E

\* re.split(r'\s+(?:and|&)\s+', value, flags=re.IGNORECASE)
RECURSIVE SplitAndAmp(_, _, _)
SplitAndAmp(s, start, i) ==
    IF i >= Len(s) THEN <<From(s, start)>>
    ELSE LET w  == SpaceRun(s, i)
             k  == IF IsAndAt(s, i + w) THEN 3
                   ELSE IF i + w < Len(s) /\ Char(s, i + w) = "&" THEN 1 ELSE 0
             w2 == SpaceRun(s, i + w + k)
         IN  IF w >= 1 /\ k > 0 /\ w2 >= 1
             THEN <<Slice(s, start, i)>> \o SplitAndAmp(s, i + w + k + w2, i + w + k + w2)
             ELSE SplitAndAmp(s, start, i + (IF w = 0 THEN 1 ELSE w))

\* re.split(r',\s*', value)
RECURSIVE SplitComma(_, _, _)
SplitComma(s, start, i) ==
    IF i >= Len(s) THEN <<From(s, start)>>
    ELSE IF Char(s, i) = ","
    THEN <<Slice(s, start, i)>>
            \o SplitComma(s, i + 1 + SpaceRun(s, i + 1), i + 1 + SpaceRun(s, i + 1))
    ELSE SplitComma(s, start, i + 1)

\* [name.strip() for name in parts if name.strip()]
RECURSIVE StrippedNonEmpty(_)
StrippedNonEmpty(parts) ==
    IF parts = <<>> THEN <<>>
    ELSE (IF Strip(Head(parts)) # "" THEN <<Strip(Head(parts))>> ELSE <<>>)
         \o StrippedNonEmpty(Tail(parts))

_extract_performer_names(separator_type, original_value) ==
    IF separator_type \in {"and", "&"}
    THEN LET parts == SplitAndAmp(original_value, 0, 0)
         IN  IF Len(parts) < 2 THEN <<>>
             ELSE IF Contains(original_value, ",")
             THEN Append(StrippedNonEmpty(SplitComma(parts[1], 0, 0)), Strip(parts[2]))
             ELSE <<Strip(parts[1]), Strip(parts[2])>>
    ELSE StrippedNonEmpty(SplitComma(original_value, 0, 0))

\* str.split(): the whitespace-separated words
RECURSIVE Words(_, _)
Words(s, i) ==
    IF i >= Len(s) THEN <<>>
    ELSE IF Char(s, i) \in Whitespace THEN Words(s, i + 1)
    ELSE LET RECURSIVE WordEnd(_)
             WordEnd(j) == IF j < Len(s) /\ Char(s, j) \notin Whitespace
                           THEN WordEnd(j + 1) ELSE j
         IN  <<Slice(s, i, WordEnd(i))>> \o Words(s, WordEnd(i))

MinWordLen == 2
MaxWordLen == 20

\* the capitalization count is computed and then ignored: both branches return True
\* the validation with a capitalization test that rejects: at least one
\* word of the original token is title-cased
ValidateCapitalized(names, original_token) ==
    /\ Len(names) >= 2
    /\ \A k \in 1..Len(names) : \A j \in 1..Len(Words(names[k], 0)) :
           /\ Lower(Words(names[k], 0)[j]) \notin NonPerformerWords
           /\ Len(Words(names[k], 0)[j]) >= MinWordLen
           /\ Len(Words(names[k], 0)[j]) <= MaxWordLen
    /\ \E i \in 0..(Len(original_token) - 1) : IsUpper(Char(original_token, i))

_validate_performer_names(names, original_token) ==
    LET all_words == UNION { {Words(names[k], 0)[j] : j \in 1..Len(Words(names[k], 0))}
                             : k \in 1..Len(names) }
    IN  /\ Len(names) >= 2
        /\ \A word \in all_words : Lower(word) \notin NonPerformerWords
        /\ \A word \in all_words : Len(word) >= MinWordLen /\ Len(word) <= MaxWordLen

_is_performer_pattern(token_value, original_token) ==
    LET value == Strip(token_value)
    IN  \E k \in 1..Len(PerformerPatterns) :
            /\ PerformerRegexMatch(k, value)
            /\ _validate_performer_names(
                   _extract_performer_names(PerformerPatterns[k], value), original_token)

PerformerMatches(tokens) ==
    {i \in 1..Len(tokens) :
        /\ tokens[i].type \notin {"path", "studio", "studio_code", "date"}
        /\ _is_performer_pattern(_normalize_performer_list(tokens[i].value),
                                 tokens[i].value)}

PerformerRebuildPattern(result, performer_matches) ==
    IF result.pattern = "" THEN result.pattern
    ELSE ReplaceMarked(result.pattern, result.tokens, performer_matches, 1, "{performers}")

\* the returned TokenizationResult is built from original, cleaned, pattern, tokens
\* and studio only: title, sequence, group and studio_code take their defaults
PerformerUpdateTokensAndPattern(result, performer_matches) ==
    LET new_tokens == [i \in 1..Len(result.tokens) |->
                          IF i \in performer_matches /\ result.tokens[i].type # "path"
                          THEN Token(_normalize_performer_list(result.tokens[i].value),
                                     "performers", result.tokens[i].position)
                          ELSE result.tokens[i]]
    IN  Result(PerformerRebuildPattern(result, performer_matches), new_tokens,
               result.studio, None, EmptySeq, None, None)

PerformerProcess(result) ==
    IF result.tokens = <<>> \/ result.pattern = "" THEN result
    ELSE IF PerformerMatches(result.tokens) # {}
         THEN PerformerUpdateTokensAndPattern(result, PerformerMatches(result.tokens))
         ELSE result

(***************************************************************************)
(* FinalStageExtractor (modules/final_stage_extractor.py)                  *)
(***************************************************************************)
\* _build_sequence_patterns: (key, labels, explicit) in order; an explicit label
\* is followed by \b, a shorthand letter is not
SequencePatterns ==
    << [key |-> "scene",   labels |-> <<"scene", "sc">>,       explicit |-> TRUE],
       [key |-> "part",    labels |-> <<"part", "pt">>,        explicit |-> TRUE],
       [key |-> "episode", labels |-> <<"episode", "ep">>,     explicit |-> TRUE],
       [key |-> "volume",  labels |-> <<"volume", "vol">>,     explicit |-> TRUE],
       [key |-> "disc",    labels |-> <<"disc", "disk", "cd">>, explicit |-> TRUE],
       [key |-> "scene",   labels |-> <<"s">>, explicit |-> FALSE],
       [key |-> "part",    labels |-> <<"p">>, explicit |-> FALSE],
       [key |-> "episode", labels |-> <<"e">>, explicit |-> FALSE],
       [key |-> "volume",  labels |-> <<"v">>, explicit |-> FALSE] >>

\* \b at offset i of text
WordBoundary(text, i) ==
    LET before == i > 0 /\ IsWordChar(Char(text, i - 1))
        after  == i < Len(text) /\ IsWordChar(Char(text, i))
    IN  before # after

\* [.\s-]?#?\s*(\d+)\b from offset p: [start, end) of the digits, or <<>>
SequenceTail(text, p) ==
    LET Q1 == {p} \cup (IF p < Len(text) /\ Char(text, p) \in ({".", "-"} \cup Whitespace)
                        THEN {p + 1} ELSE {})
        Q2 == Q1 \cup {q + 1 : q \in {q \in Q1 : q < Len(text) /\ Char(text, q) = "#"}}
        Q3 == {q + SpaceRun(text, q) : q \in Q2}
        ok == {q \in Q3 : DigitRun(text, q) >= 1 /\ WordBoundary(text, q + DigitRun(text, q))}
    IN  IF ok = {} THEN <<>>
        ELSE LET q == CHOOSE q \in ok : TRUE IN <<q, q + DigitRun(text, q)>>

RECURSIVE SequenceMatchLabels(_, _, _, _)
SequenceMatchLabels(pat, text, i, k) ==
    IF k > Len(pat.labels) THEN <<>>
    ELSE LET l == pat.labels[k]
             e == i + Len(l)
         IN  IF /\ e <= Len(text) /\ Lower(Slice(text, i, e)) = l
                /\ (pat.explicit => WordBoundary(text, e))
                /\ SequenceTail(text, e) # <<>>
             THEN SequenceTail(text, e)
             ELSE SequenceMatchLabels(pat, text, i, k + 1)

\* pattern.finditer(text) from offset i
RECURSIVE SequenceFindIter(_, _, _)
SequenceFindIter(pat, text, i) ==
    IF i >= Len(text) THEN <<>>
    ELSE LET d == IF WordBoundary(text, i) THEN SequenceMatchLabels(pat, text, i, 1) ELSE <<>>
         IN  IF d # <<>>
             THEN <<[key |-> pat.key, number |-> ParseInt(Slice(text, d[1], d[2])),
                     start |-> i, end |-> d[2]]>> \o SequenceFindIter(pat, text, d[2])
             ELSE SequenceFindIter(pat, text, i + 1)

RECURSIVE AllSequenceMatches(_, _)
AllSequenceMatches(text, k) ==
    IF k > Len(SequencePatterns) THEN <<>>
    ELSE SequenceFindIter(SequencePatterns[k], text, 0) \o AllSequenceMatches(text, k + 1)

\* list.sort / sorted are stable; order is "start_end" for key (start, end) and
\* "start_desc" for key start with reverse=True
Before(order, a, b) ==
    IF order = "start_end"
    THEN a.start < b.start \/ (a.start = b.start /\ a.end < b.end)
    ELSE a.start > b.start

RECURSIVE InsertSorted(_, _, _)
InsertSorted(sorted, m, order) ==
    IF sorted = <<>> THEN <<m>>
    ELSE IF Before(order, m, Head(sorted)) THEN <<m>> \o sorted
    ELSE <<Head(sorted)>> \o InsertSorted(Tail(sorted), m, order)

RECURSIVE StableSort(_, _)
StableSort(ms, order) ==
    IF ms = <<>> THEN <<>>
    ELSE InsertSorted(StableSort(SubSeq(ms, 1, Len(ms) - 1), order), ms[Len(ms)], order)

_find_labeled_sequences(text) == StableSort(AllSequenceMatches(text, 1), "start_end")

RECURSIVE RemoveSpans(_, _)
RemoveSpans(text, ms) ==
    IF ms = <<>> THEN text
    ELSE RemoveSpans(Slice(text, 0, Head(ms).start) \o From(text, Head(ms).end), Tail(ms))

_remove_sequence_markers(text) ==
    IF text = "" THEN ""
    ELSE RemoveSpans(text, StableSort(_find_labeled_sequences(text), "start_desc"))

_clean_text(text) ==
    IF text = None \/ text = "" THEN ""
    ELSE LET collapsed == Strip(CollapseSpaces(text, 0))
             trimmed   == Strip(trim(TrimmingStrings, collapsed))
             c1        == Strip(LStripChars(trimmed, {",", ";", ":"}))
         IN  Strip(RStripChars(c1, {",", ";", ":"}))

_is_numeric_only(text) == AllDigits(text)

\* \b[a-zA-Z]{2,}\b : a maximal run of word characters made of 2 or more letters
_is_meaningful_text(text) ==
    \E i \in 0..(Len(text) - 1) :
        /\ WordBoundary(text, i)
        /\ LetterRun(text, i) >= 2
        /\ WordBoundary(text, i + LetterRun(text, i))

\* ^sc-?\d{4}$
IsSeanCodyCode(v) ==
    LET p == IF Len(v) > 2 /\ Char(v, 2) = "-" THEN 3 ELSE 2
    IN  Len(v) >= 2 /\ Lower(Slice(v, 0, 2)) = "sc" /\ DigitRun(v, p) = 4 /\ Len(v) = p + 4

SetKey(sequence, k, n) ==
    [x \in (DOMAIN sequence) \cup {k} |-> IF x = k THEN n ELSE sequence[x]]

RECURSIVE UpdateSequence(_, _)
UpdateSequence(sequence, ms) ==
    IF ms = <<>> THEN sequence
    ELSE UpdateSequence(SetKey(sequence, Head(ms).key, Head(ms).number), Tail(ms))

\* the leftmost match taken for the split instead of the rightmost
LeftmostMatch(ms) == ms[1]

\* max(matches, key=lambda m: (m.end, m.start)): the first maximal element
PrimaryMatch(ms) ==
    ms[CHOOSE i \in 1..Len(ms) :
          /\ \A j \in 1..Len(ms) : ~(ms[i].end < ms[j].end
                                     \/ (ms[i].end = ms[j].end /\ ms[i].start < ms[j].start))
          /\ \A j \in 1..(i - 1) : ms[j].end # ms[i].end \/ ms[j].start # ms[i].start]

ConsumedTypes == {"path", "date", "studio", "studio_code", "performers"}
GroupMarkers == {"scene", "volume", "episode", "disc"}

\* the branches of the loop body of _extract_labeled_sequences once the token's
\* matches are known; st = [tokens, sequence, group]
LabeledApply(st, i, seq2, key, prefix, suffix) ==
    LET token == st.tokens[i]
        Set(v, ty, g) == [tokens   |-> [st.tokens EXCEPT ![i] = Token(v, ty, token.position)],
                          sequence |-> seq2, group |-> g]
    IN  IF prefix # "" /\ suffix = ""
        THEN IF key \in GroupMarkers /\ st.group = None
             THEN Set(token.value, "sequence", prefix)
             ELSE IF key = "part" THEN Set(prefix, token.type, st.group)
             ELSE Set(prefix, "sequence", st.group)
        ELSE IF prefix = "" /\ suffix # ""
        THEN Set(suffix, token.type, st.group)
        ELSE IF prefix # "" /\ suffix # ""
        THEN Set(suffix, token.type,
                 IF key \in GroupMarkers /\ st.group = None THEN prefix ELSE st.group)
        ELSE Set(token.value, "sequence", st.group)

LabeledSplit(st, i, seq2, original, primary) ==
    LabeledApply(st, i, seq2, primary.key,
        _clean_text(_remove_sequence_markers(Strip(Slice(original, 0, primary.start)))),
        _clean_text(_remove_sequence_markers(Strip(From(original, primary.end)))))

LabeledMatches(st, i, matches) ==
    IF matches = <<>> THEN st
    ELSE LabeledSplit(st, i, UpdateSequence(st.sequence, matches), st.tokens[i].value,
                      PrimaryMatch(matches))

\* one iteration of the loop of _extract_labeled_sequences on token i
LabeledStep(st, i) ==
    IF \/ st.tokens[i].type \in ConsumedTypes
       \/ Strip(st.tokens[i].value) = ""
       \/ IsSeanCodyCode(Strip(st.tokens[i].value))
    THEN st
    ELSE LabeledMatches(st, i, _find_labeled_sequences(st.tokens[i].value))

RECURSIVE _extract_labeled_sequences(_, _)
_extract_labeled_sequences(st, i) ==
    IF i > Len(st.tokens) THEN st
    ELSE _extract_labeled_sequences(LabeledStep(st, i), i + 1)

\* increasing sequence of the elements of a set of indices
RECURSIVE SortedIndices(_)
SortedIndices(S) ==
    IF S = {} THEN <<>>
    ELSE <<FirstIn(S)>> \o SortedIndices(S \ {FirstIn(S)})

MaxSceneDigits == 3

\* indices of the unconsumed, non-blank tokens, in order
Candidates(tokens) ==
    SortedIndices({i \in 1..Len(tokens) :
        /\ tokens[i].type \notin ConsumedTypes \cup {"sequence"}
        /\ Strip(tokens[i].value) # ""})

MeaningfulAt(tokens, candidates, k) ==
    /\ k >= 1 /\ k <= Len(candidates)
    /\ _is_meaningful_text(Strip(tokens[candidates[k]].value))

\* the inference without the limit on the number of digits
InferAtAnyLength(st, candidates, position) ==
    IF /\ 1 < position /\ position < Len(candidates)
       /\ MeaningfulAt(st.tokens, candidates, position - 1)
       /\ MeaningfulAt(st.tokens, candidates, position + 1)
    THEN [tokens   |-> [st.tokens EXCEPT ![candidates[position]].type = "sequence"],
          sequence |-> SetKey(st.sequence, "scene",
                              ParseInt(Strip(st.tokens[candidates[position]].value)))]
    ELSE st

\* the "<text> <number> <text>" test and _consume_numeric_scene_token
InferAt(st, candidates, position) ==
    IF /\ 1 < position /\ position < Len(candidates)
       /\ MeaningfulAt(st.tokens, candidates, position - 1)
       /\ MeaningfulAt(st.tokens, candidates, position + 1)
       /\ Len(Strip(st.tokens[candidates[position]].value)) <= MaxSceneDigits
    THEN [tokens   |-> [st.tokens EXCEPT ![candidates[position]].type = "sequence"],
          sequence |-> SetKey(st.sequence, "scene",
                              ParseInt(Strip(st.tokens[candidates[position]].value)))]
    ELSE st

InferAmong(st, candidates, numeric) ==
    IF Cardinality(numeric) # 1 THEN st
    ELSE InferAt(st, candidates, CHOOSE k \in numeric : TRUE)

InferFrom(st, candidates) ==
    InferAmong(st, candidates,
               {k \in 1..Len(candidates) :
                   _is_numeric_only(Strip(st.tokens[candidates[k]].value))})

\* _infer_bare_scene_numbers; st = [tokens, sequence]
_infer_bare_scene_numbers(st) ==
    IF "scene" \in DOMAIN st.sequence THEN st
    ELSE InferFrom(st, Candidates(st.tokens))

\* the keys in the opposite order
SequencePriorityReversed == <<"disc", "volume", "part", "episode", "scene">>

SequencePriority == <<"scene", "episode", "part", "volume", "disc">>

\* _primary_sequence_number: <<n>> or <<>> for None
_primary_sequence_number(sequence) ==
    LET have == {k \in 1..Len(SequencePriority) : SequencePriority[k] \in DOMAIN sequence}
    IN  IF have = {} THEN <<>> ELSE <<sequence[SequencePriority[FirstIn(have)]]>>

RECURSIVE SplitOn(_, _, _, _)
SplitOn(s, c, start, i) ==
    IF i >= Len(s) THEN <<From(s, start)>>
    ELSE IF Char(s, i) = c THEN <<Slice(s, start, i)>> \o SplitOn(s, c, i + 1, i + 1)
    ELSE SplitOn(s, c, start, i + 1)

RECURSIVE CleanedNonEmpty(_)
CleanedNonEmpty(parts) ==
    IF parts = <<>> THEN <<>>
    ELSE (IF _clean_text(Head(parts)) # "" THEN <<_clean_text(Head(parts))>> ELSE <<>>)
         \o CleanedNonEmpty(Tail(parts))

RECURSIVE JoinWith(_, _)
JoinWith(parts, sep) ==
    IF parts = <<>> THEN ""
    ELSE IF Len(parts) = 1 THEN parts[1]
    ELSE parts[1] \o sep \o JoinWith(Tail(parts), sep)

RECURSIVE PerformerNames(_, _)
PerformerNames(tokens, i) ==
    IF i > Len(tokens) THEN <<>>
    ELSE (IF tokens[i].type = "performers" /\ Strip(tokens[i].value) # ""
          THEN CleanedNonEmpty(SplitOn(tokens[i].value, ",", 0, 0)) ELSE <<>>)
         \o PerformerNames(tokens, i + 1)

_title_from_performers(tokens) ==
    LET names == PerformerNames(tokens, 1)
    IN  IF names = <<>> THEN None
        ELSE IF Len(names) = 1 THEN names[1]
        ELSE JoinWith(SubSeq(names, 1, Len(names) - 1), ", ") \o " & " \o names[Len(names)]

\* the title of _finalize_group_and_title, given the chosen title tokens
TitleOf(tokens, title_tokens, group2, seq_number) ==
    IF title_tokens # <<>>
    THEN IF Len(title_tokens) = 1 THEN _clean_text(tokens[title_tokens[1]].value)
         ELSE _clean_text(JoinWith([k \in 1..Len(title_tokens) |->
                                       _clean_text(tokens[title_tokens[k]].value)], " "))
    ELSE IF Truthy(group2) /\ seq_number # <<>>
    THEN group2 \o ", Scene " \o ToString(seq_number[1])
    ELSE _title_from_performers(tokens)

\* group_index is the index of the token retyped group, 0 when there is none
FinalizeChosen(tokens, sequence, group2, group_index, title_tokens) ==
    [tokens |-> [i \in 1..Len(tokens) |->
                    IF \E k \in 1..Len(title_tokens) : title_tokens[k] = i
                    THEN [tokens[i] EXCEPT !.type = "title"]
                    ELSE IF i = group_index THEN [tokens[i] EXCEPT !.type = "group"]
                    ELSE tokens[i]],
     group  |-> group2,
     title  |-> TitleOf(tokens, title_tokens, group2, _primary_sequence_number(sequence))]

FinalizeAmong(tokens, sequence, group_value, meaningful) ==
    IF group_value = None /\ Len(meaningful) >= 2
    THEN FinalizeChosen(tokens, sequence, _clean_text(tokens[meaningful[1]].value),
                        meaningful[1], Tail(meaningful))
    ELSE FinalizeChosen(tokens, sequence, group_value, 0, meaningful)

\* _finalize_group_and_title; returns [tokens, group, title]
_finalize_group_and_title(tokens, sequence, group_value) ==
    FinalizeAmong(tokens, sequence, group_value,
        SortedIndices({i \in 1..Len(tokens) :
            /\ tokens[i].type \notin ConsumedTypes \cup {"sequence"}
            /\ Strip(tokens[i].value) # ""
            /\ _is_meaningful_text(Strip(tokens[i].value))}))

_rebuild_pattern_for_title(pattern, tokens) ==
    LET real == NonPath(tokens)
    IN  IF pattern = "" \/ tokens = <<>> THEN pattern
        ELSE SubPlaceholders(pattern,
                 [k \in 1..Len(real) |-> IF real[k].type = "title" THEN "{title}" ELSE None])

FinalResult(result, sequence, p3) ==
    Result(_rebuild_pattern_for_title(result.pattern, p3.tokens), p3.tokens,
           result.studio, p3.title, sequence, p3.group, result.studio_code)

FinalPass3(result, group_value, p2) ==
    FinalResult(result, p2.sequence,
                _finalize_group_and_title(p2.tokens, p2.sequence, group_value))

FinalPass2(result, p1) ==
    FinalPass3(result, p1.group,
               _infer_bare_scene_numbers([tokens |-> p1.tokens, sequence |-> p1.sequence]))

FinalProcess(result) ==
    IF result.tokens = <<>>
    THEN [result EXCEPT !.sequence = EmptySeq, !.group = None,
                        !.title = IF Truthy(result.title) THEN result.title ELSE None]
    ELSE FinalPass2(result,
             _extract_labeled_sequences(
                 [tokens |-> result.tokens, sequence |-> result.sequence,
                  group |-> result.group], 1))

(***************************************************************************)
(* FilenameParser.parse (yansa.py)                                         *)
(***************************************************************************)
\* `if existing_value: ... final_result.studio = existing_value`
\* seeding that does not look at the studio already found
SeedExistingStudioAlways(result, existing_studio) ==
    IF existing_studio # None /\ Strip(existing_studio) # ""
    THEN [result EXCEPT !.studio = Strip(existing_studio)]
    ELSE result

SeedExistingStudio(result, existing_studio) ==
    LET existing_value == IF existing_studio = None THEN "" ELSE Strip(existing_studio)
        current_studio == IF result.studio = None THEN "" ELSE Strip(result.studio)
    IN  IF existing_value # "" /\ (current_studio = "" \/ Lower(current_studio) = "unknown")
        THEN [result EXCEPT !.studio = existing_value]
        ELSE result

(***************************************************************************)
(* parse() as a state machine: one action per pipeline step                *)
(***************************************************************************)
EmptyResult == Result("", <<>>, None, None, EmptySeq, None, None)

\* the pieces cleaned filenames are assembled from, joined by " - "
Parts ==
    << "Acme", "Unknown", "Acme-Show", "xAcme", "2020", "20200101 clip", "8492",
       "AC1234", "Al & Bo", "Show Scene 2", "[HD]", "[HD.]", "Night", "12", "p\\x" >>

MaxParts == 2

PartChoices == UNION {[1..n -> 1..Len(Parts)] : n \in 0..MaxParts}

Assemble(choice) == JoinWith([k \in 1..Len(choice) |-> Parts[choice[k]]], " - ")

Filenames == {Assemble(choice) : choice \in PartChoices}

ExistingStudios == {None, "", "unknown", "Scary"}

IdleTrim ==
    /\ trStrings = <<>> /\ trText = "" /\ trCur = "" /\ trChanged = FALSE
    /\ trPc = "off" /\ trFirst = "" /\ trPasses = 0

IdleLoad ==
    /\ files = <<>> /\ cache = <<>> /\ built = <<>>

IdlePipe ==
    /\ pc = "off" /\ cleaned = "" /\ existing = None
    /\ res = EmptyResult /\ prev = EmptyResult /\ arg = EmptyResult

IdlePre ==
    /\ preIn = "" /\ prePc = "off" /\ preCat = 0
    /\ prePrev = "" /\ preCleaned = "" /\ preRemoved = <<>>

IdlePar ==
    /\ parIn = <<>> /\ parPc = <<>> /\ parCleaned = <<>>
    /\ parConfig = <<>> /\ parIO = <<>> /\ parRaised = <<>>

IdleBat ==
    /\ batIn = <<>> /\ batDry = FALSE /\ batPc = "off" /\ batIdx = 0
    /\ batUpdates = <<>> /\ batSkipped = 0 /\ batErrors = <<>>
    /\ batCache = <<>> /\ batSent = None

IdleMtu ==
    /\ mtuParsed = <<>> /\ mtuOriginal = <<>> /\ mtuApproved = <<>> /\ mtuMark = None
    /\ mtuPc = "off" /\ mtuIdx = 0 /\ mtuUpdate = <<>>

IdleRun ==
    /\ runIn = <<>> /\ runSize = 0 /\ runMode = "off" /\ runDry = FALSE /\ runPc = "off"
    /\ runLeft = {} /\ runCounts = <<>> /\ runCache = <<>> /\ runLog = <<>>

IdleGql ==
    gqlPc = "off" /\ gqlAttempt = 0 /\ gqlLog = <<>> /\ gqlSleeps = <<>> /\ gqlResult = None

IdleOutsidePipe == IdleTrim /\ IdleLoad /\ IdlePre /\ IdlePar /\ IdleBat /\ IdleMtu /\ IdleRun /\ IdleGql
IdleOutsideTrim == IdlePipe /\ IdleLoad /\ IdlePre /\ IdlePar /\ IdleBat /\ IdleMtu /\ IdleRun /\ IdleGql
IdleOutsideLoad == IdlePipe /\ IdleTrim /\ IdlePre /\ IdlePar /\ IdleBat /\ IdleMtu /\ IdleRun /\ IdleGql
IdleOutsidePre == IdlePipe /\ IdleTrim /\ IdleLoad /\ IdlePar /\ IdleBat /\ IdleMtu /\ IdleRun /\ IdleGql
IdleOutsidePar == IdlePipe /\ IdleTrim /\ IdlePre /\ IdleBat /\ IdleMtu /\ IdleRun /\ IdleGql
IdleOutsideBat == IdlePipe /\ IdleTrim /\ IdleLoad /\ IdlePre /\ IdlePar /\ IdleMtu /\ IdleRun /\ IdleGql
IdleOutsideMtu == IdleTrim /\ IdleLoad /\ IdlePipe /\ IdlePre /\ IdlePar /\ IdleBat /\ IdleRun /\ IdleGql
IdleOutsideRun == IdleTrim /\ IdleLoad /\ IdlePipe /\ IdlePre /\ IdlePar /\ IdleBat /\ IdleMtu /\ IdleGql
IdleOutsideGql == IdleTrim /\ IdleLoad /\ IdlePipe /\ IdlePre /\ IdlePar /\ IdleBat /\ IdleMtu /\ IdleRun

Init ==
    /\ pc = "start"
    /\ cleaned \in Filenames
    /\ existing \in ExistingStudios
    /\ res = EmptyResult
    /\ prev = EmptyResult
    /\ arg = EmptyResult
    /\ IdleOutsidePipe

\* every step leaves the object it received as it was
ReceivedUntouched(to, received, out) == received

\* What the caller's object holds when the step that leads to `to` returns.
\* The stages up to PerformerMatcher build a new TokenizationResult with new
\* Tokens, or return the one they received untouched.  parse() assigns the
\* seeded studio to the object it holds, and FinalStageExtractor.process
\* writes sequence, group, title and pattern into the result it received,
\* retypes and rewrites its Tokens, and returns that same object.
ReceivedAfter(to, received, out) ==
    IF to \in {"seeded", "done"} THEN out ELSE received

Stage(from, to, out) ==
    /\ pc = from
    /\ pc' = to
    /\ prev' = res
    /\ arg' = ReceivedAfter(to, res, out)
    /\ res' = out
    /\ UNCHANGED <<cleaned, existing, outsidePipe>>

Tokenize == Stage("start", "tokenized", tokenize(cleaned))

ExtractDates == Stage("tokenized", "dated", DateProcess(res))

MatchStudios == Stage("dated", "studio", StudioProcess(res))

MatchStudiosDashFallback == Stage("studio", "dash", process_dash_fallback(res))

MatchStudiosPartialFallback == Stage("dash", "partial", process_partial_match_fallback(res))

SeedStudio == Stage("partial", "seeded", SeedExistingStudio(res, existing))

FindStudioCodes == Stage("seeded", "coded", CodeProcess(res))

MatchPerformers == Stage("coded", "performers", PerformerProcess(res))

FinalizeStructure == Stage("performers", "done", FinalProcess(res))

Next ==
    \/ Tokenize
    \/ ExtractDates
    \/ MatchStudios
    \/ MatchStudiosDashFallback
    \/ MatchStudiosPartialFallback
    \/ SeedStudio
    \/ FindStudioCodes
    \/ MatchPerformers
    \/ FinalizeStructure

Spec == Init /\ [][Next]_vars

(***************************************************************************)
(* The same pipeline over filenames that exercise the date rules, the      *)
(* studio-code relationships, the performer lists and the final stage.     *)
(* A filename is a head, a middle and a tail piece joined by " - "; an     *)
(* empty piece is left out.                                                *)
(***************************************************************************)
StageHeads ==
    {"", "Show", "a", "Show Scene 2", "Al & Bo", "Acme", "Show Episode 4",
     "Show Episode 4 Scene 2"}

StageMids ==
    {"", "12", "1234", "12 sep 2020", "12 jan 2020", "8492", "AC1234",
     "al & bo", "A & Bo", "Al & The Bo", "Al, Bo and Cy",
     "Abcdefghijklmnopqrstu & Bo", "Abcdefghijklmnopqrst & Bo"}

StageTails == {"", "Night", "7", "x 12 Sep 2020 y"}

NonEmptyPieces(pieces) == SelectSeq(pieces, LAMBDA x : x # "")

StageFilenames ==
    { JoinWith(NonEmptyPieces(<<h, m, t>>), " - ") :
        h \in StageHeads, m \in StageMids, t \in StageTails }

StageExisting == {None, "scary", "Other"}

StageInit ==
    /\ pc = "start"
    /\ cleaned \in StageFilenames
    /\ existing \in StageExisting
    /\ res = EmptyResult
    /\ prev = EmptyResult
    /\ arg = EmptyResult
    /\ IdleOutsidePipe

StageSpec == StageInit /\ [][Next]_vars

\* filenames whose tokens are split by the studio fallbacks and by
\* StudioCodeFinder, at every position among up to three tokens
SplitPieces ==
    {"", "Night", "AcmeShow", "Acme x1", "xBang", "xAcmey", "Show-Acme",
     "AC1234", "8492 b", "8492", "2020"}

SplitFilenames ==
    { JoinWith(NonEmptyPieces(<<a, b, c>>), " - ") :
        a \in SplitPieces, b \in SplitPieces, c \in SplitPieces }

SplitExisting == {None, "Scary"}

SplitInit ==
    /\ pc = "start"
    /\ cleaned \in SplitFilenames
    /\ existing \in SplitExisting
    /\ res = EmptyResult
    /\ prev = EmptyResult
    /\ arg = EmptyResult
    /\ IdleOutsidePipe

SplitSpec == SplitInit /\ [][Next]_vars

\* filenames whose tokens hold sequence markers: after a prefix, before a
\* suffix, alone, several in one token, and a code shaped like sc####
LabelPieces ==
    {"", "Show", "Show Scene 2", "Night Part 2", "Scene 3", "Show Part 2 Scene 3",
     "Scene 1 Ep 4 Scene 2", "sc1234", "Pt 1 Night"}

LabelFilenames ==
    { JoinWith(NonEmptyPieces(<<a, b, c>>), " - ") :
        a \in LabelPieces, b \in LabelPieces, c \in LabelPieces }

LabelInit ==
    /\ pc = "start"
    /\ cleaned \in LabelFilenames
    /\ existing = None
    /\ res = EmptyResult
    /\ prev = EmptyResult
    /\ arg = EmptyResult
    /\ IdleOutsidePipe

LabelSpec == LabelInit /\ [][Next]_vars

(***************************************************************************)
(* Trimmer.trim run pass by pass (modules/trimmer.py), called twice: the   *)
(* second call is given the result of the first.                           *)
(***************************************************************************)
MaxTrimLen == 4

MaxTrimList == 2

\* the while loop is cut off after this many passes
MaxPasses == MaxTrimLen + 3

TrimChars == {"-", ".", "a"}

\* the entries a configured "trimming_strings" list is drawn from
TrimEntries == {"-", ".", "-.", "a", ""}

RECURSIVE StringsUpTo(_)
StringsUpTo(n) ==
    IF n = 0 THEN {""}
    ELSE LET shorter == StringsUpTo(n - 1)
         IN  shorter \cup {x \o c : x \in {y \in shorter : Len(y) = n - 1}, c \in TrimChars}

TrimLists == UNION {[1..n -> TrimEntries] : n \in 0..MaxTrimList}

\* the argument of the running call
TrimArg == IF trPc \in {"call1", "loop1", "ret1"} THEN trText ELSE trFirst

TrimInit ==
    /\ trStrings \in TrimLists
    /\ trText \in StringsUpTo(MaxTrimLen)
    /\ trCur = ""
    /\ trChanged = FALSE
    /\ trPc = "call1"
    /\ trFirst = None
    /\ trPasses = 0
    /\ IdleOutsideTrim

\* entry of trim: `if not text: return text`, else trimmed = text, changed = True
TrimEnter ==
    /\ trPc \in {"call1", "call2"}
    /\ trCur' = TrimArg
    /\ trChanged' = (TrimArg # "")
    /\ trPc' = (IF TrimArg = "" THEN (IF trPc = "call1" THEN "ret1" ELSE "ret2")
                ELSE IF trPc = "call1" THEN "loop1" ELSE "loop2")
    /\ trPasses' = 0
    /\ UNCHANGED <<trStrings, trText, trFirst, outsideTrim>>

\* one iteration of `while changed`
TrimPassStep ==
    /\ trPc \in {"loop1", "loop2"}
    /\ trChanged
    /\ trPasses < MaxPasses
    /\ trCur' = TrimPass(trStrings, trCur).t
    /\ trChanged' = TrimPass(trStrings, trCur).c
    /\ trPasses' = trPasses + 1
    /\ UNCHANGED <<trStrings, trText, trPc, trFirst, outsideTrim>>

\* the loop condition is false: return trimmed
TrimReturn ==
    /\ trPc \in {"loop1", "loop2"}
    /\ ~trChanged
    /\ trPc' = (IF trPc = "loop1" THEN "ret1" ELSE "ret2")
    /\ UNCHANGED <<trStrings, trText, trCur, trChanged, trFirst, trPasses,
                   outsideTrim>>

\* the caller passes the result to trim again
TrimAgain ==
    /\ trPc = "ret1"
    /\ trFirst' = trCur
    /\ trPc' = "call2"
    /\ UNCHANGED <<trStrings, trText, trCur, trChanged, trPasses, outsideTrim>>

TrimNext ==
    \/ TrimEnter
    \/ TrimPassStep
    \/ TrimReturn
    \/ TrimAgain

TrimSpec == TrimInit /\ [][TrimNext]_vars

(***************************************************************************)
(* Rule-table loading: DictionaryLoader (modules/dictionary_loader.py) and *)
(* the constructors of the stages.  preload_all is a sequence of           *)
(* load_dictionary calls, so LoadDictionary covers what it does to _cache. *)
(***************************************************************************)
Tables == {"parser-dictionary.json", "date_formats.json", "studio_codes.json"}

\* what open() and json.load meet: a readable JSON file, no file, text that is
\* not JSON, a file the process may not read, bytes that are not UTF-8
FileStates == {"ok", "missing", "malformed", "unreadable", "undecodable"}

\* the exception open()/json.load raise with encoding='utf-8', None for success
OpenError(s) ==
    CASE s = "ok"         -> None
      [] s = "missing"    -> "FileNotFoundError"
      [] s = "malformed"  -> "JSONDecodeError"
      [] s = "unreadable" -> "PermissionError"
      [] OTHER            -> "UnicodeDecodeError"

\* except (FileNotFoundError, json.JSONDecodeError, IOError): IOError is OSError
LoadDictionaryCatches == {"FileNotFoundError", "JSONDecodeError", "PermissionError"}

\* except (FileNotFoundError, json.JSONDecodeError) of Tokenizer and PerformerMatcher
DirectOpenCatches == {"FileNotFoundError", "JSONDecodeError"}

\* except (UnicodeDecodeError, json.JSONDecodeError, FileNotFoundError) of Trimmer
TrimmerCatches == {"UnicodeDecodeError", "JSONDecodeError", "FileNotFoundError"}

\* DictionaryLoader.load_dictionary: the value returned, the exception that
\* escapes, and _cache afterwards
load_dictionary(dictionary_name, use_cache) ==
    IF use_cache /\ cache[dictionary_name]
    THEN [value |-> "table", raised |-> None, cache |-> cache]
    ELSE IF OpenError(files[dictionary_name]) = None
    THEN [value |-> "table", raised |-> None,
          cache |-> IF use_cache THEN [cache EXCEPT ![dictionary_name] = TRUE]
                    ELSE cache]
    ELSE IF OpenError(files[dictionary_name]) \in LoadDictionaryCatches
    THEN [value |-> None, raised |-> None, cache |-> cache]
    ELSE [value |-> None, raised |-> OpenError(files[dictionary_name]), cache |-> cache]

Built(stage, table, rules, raised) ==
    [stage |-> stage, table |-> table,
     rules |-> IF raised = None THEN rules ELSE "unset",
     raised |-> raised, failed |-> files[table] # "ok"]

NotBuilt ==
    [stage |-> "none", table |-> "none", rules |-> "unset", raised |-> None,
     failed |-> FALSE]

LoaderInit ==
    /\ files \in [Tables -> FileStates]
    /\ cache = [t \in Tables |-> FALSE]
    /\ built = NotBuilt
    /\ IdleOutsideLoad

\* the file of a table is replaced, removed or made unreadable on disk
SetFile ==
    \E t \in Tables, s \in FileStates :
        /\ files[t] # s
        /\ files' = [files EXCEPT ![t] = s]
        /\ UNCHANGED <<cache, built, outsideLoad>>

LoadDictionary ==
    \E t \in Tables, use_cache \in BOOLEAN :
        /\ cache' = load_dictionary(t, use_cache).cache
        /\ UNCHANGED <<files, built, outsideLoad>>

\* clear_cache(dictionary_name)
ClearCache ==
    \E t \in Tables :
        /\ cache' = [cache EXCEPT ![t] = FALSE]
        /\ UNCHANGED <<files, built, outsideLoad>>

\* clear_cache()
ClearCacheAll ==
    /\ cache' = [t \in Tables |-> FALSE]
    /\ UNCHANGED <<files, built, outsideLoad>>

\* a constructor that reads its table through DictionaryLoader.load_dictionary
ConstructViaLoader(stage, table) ==
    /\ cache' = load_dictionary(table, TRUE).cache
    /\ built' = Built(stage, table,
                      IF load_dictionary(table, TRUE).value = None THEN "empty"
                      ELSE "loaded",
                      load_dictionary(table, TRUE).raised)
    /\ UNCHANGED <<files, outsideLoad>>

ConstructDateExtractor == ConstructViaLoader("DateExtractor", "date_formats.json")

ConstructStudioCodeFinder == ConstructViaLoader("StudioCodeFinder", "studio_codes.json")

\* rules and exception of a constructor that opens parser-dictionary.json itself
DirectOpen(catches, fallback) ==
    LET e == OpenError(files["parser-dictionary.json"])
    IN  IF e = None THEN [rules |-> "loaded", raised |-> None]
        ELSE IF e \in catches THEN [rules |-> fallback, raised |-> None]
        ELSE [rules |-> "unset", raised |-> e]

\* Trimmer._load_trimming_strings: bytes that are not UTF-8 still decode as
\* latin-1, and what they hold decides whether json.load accepts them
ConstructTrimmer ==
    \E decoded \in {"loaded", "empty"} :
        /\ built' = Built("Trimmer", "parser-dictionary.json",
                          IF files["parser-dictionary.json"] = "undecodable"
                          THEN decoded
                          ELSE DirectOpen(TrimmerCatches, "empty").rules,
                          IF files["parser-dictionary.json"] = "undecodable" THEN None
                          ELSE DirectOpen(TrimmerCatches, "empty").raised)
        /\ UNCHANGED <<files, cache, outsideLoad>>

\* Tokenizer.__init__: Trimmer() first, then its own open of the same file
ConstructTokenizer ==
    /\ built' = Built("Tokenizer", "parser-dictionary.json",
                      DirectOpen(DirectOpenCatches, "empty").rules,
                      DirectOpen(DirectOpenCatches, "empty").raised)
    /\ UNCHANGED <<files, cache, outsideLoad>>

\* PerformerMatcher._load_non_performer_words: a built-in word set on failure
ConstructPerformerMatcher ==
    /\ built' = Built("PerformerMatcher", "parser-dictionary.json",
                      DirectOpen(DirectOpenCatches, "default").rules,
                      DirectOpen(DirectOpenCatches, "default").raised)
    /\ UNCHANGED <<files, cache, outsideLoad>>

LoaderNext ==
    \/ SetFile
    \/ LoadDictionary
    \/ ClearCache
    \/ ClearCacheAll
    \/ ConstructDateExtractor
    \/ ConstructStudioCodeFinder
    \/ ConstructTrimmer
    \/ ConstructTokenizer
    \/ ConstructPerformerMatcher

LoaderSpec == LoaderInit /\ [][LoaderNext]_vars

(***************************************************************************)
(* PreTokenizer (src/modules/pre_tokenizer.py)                             *)
(***************************************************************************)
\* The early-removal categories built from the marker lists of
\* parser-dictionary.json, one per marker, in the order process() visits
\* them (sorted by confidence, highest first; the sort is stable).
EarlyRemovalCategories ==
    << [name |-> "resolution_720p", marker |-> "720p", confidence |-> 95],
       [name |-> "quality_HQ", marker |-> "HQ", confidence |-> 90] >>

\* config["extensions"], lower-cased
Extensions == {"mp4"}

\* config["replace_with_dash"]
ReplaceWithDash == <<"~">>

RemovedToken(value, category, position) ==
    [value |-> value, category |-> category, position |-> position]

Min2(a, b) == IF a <= b THEN a ELSE b

\* Python slices s[:b] and s[a:], which clamp an index beyond the end
Upto(s, b) == Slice(s, 0, Min2(b, Len(s)))
After(s, a) == From(s, Min2(a, Len(s)))

\* Path(filename).name for a POSIX path
RECURSIVE RStripSlash(_)
RStripSlash(s) ==
    IF s # "" /\ Char(s, Len(s) - 1) = "/" THEN RStripSlash(CutEnd(s, 1)) ELSE s

Basename(filename) ==
    LET p == RStripSlash(filename)
    IN  From(p, RFind(p, "/", Len(p) - 1) + 1)

\* (?<![a-zA-Z0-9])(marker)(?![a-zA-Z0-9]) matches at offset i of s
MarkerAt(s, m, i) ==
    /\ MatchAt(s, m, i)
    /\ (i = 0 \/ ~IsAlnum(Char(s, i - 1)))
    /\ (i + Len(m) = Len(s) \/ ~IsAlnum(Char(s, i + Len(m))))

\* start offsets of the matches pattern.finditer(s) yields
RECURSIVE MarkerStarts(_, _, _)
MarkerStarts(s, m, i) ==
    IF i + Len(m) > Len(s) THEN <<>>
    ELSE IF MarkerAt(s, m, i) THEN <<i>> \o MarkerStarts(s, m, i + Len(m))
    ELSE MarkerStarts(s, m, i + 1)

\* the loop body of _apply_category_removal: the offsets come from the
\* string finditer was started on, the slices are taken from the string
\* as the earlier iterations left it
RECURSIVE RemoveAtStarts(_, _, _, _)
RemoveAtStarts(cl, m, starts, k) ==
    IF k > Len(starts) THEN cl
    ELSE RemoveAtStarts(Upto(cl, starts[k]) \o After(cl, starts[k] + Len(m)),
                        m, starts, k + 1)

\* _apply_category_removal: [cleaned, removed]
_apply_category_removal(cl, category) ==
    LET starts == MarkerStarts(cl, category.marker, 0)
    IN  [cleaned |-> Strip(RemoveAtStarts(cl, category.marker, starts, 1)),
         removed |-> [k \in 1..Len(starts) |->
                        RemovedToken(category.marker, category.name, starts[k])]]

\* end of the match of \s*-\s*-\s* that starts at offset i, or -1
DoubleDashEnd(s, i) ==
    LET a == i + SpaceRun(s, i)
        b == a + 1 + SpaceRun(s, a + 1)
    IN  IF a < Len(s) /\ Char(s, a) = "-" /\ b < Len(s) /\ Char(s, b) = "-"
        THEN b + 1 + SpaceRun(s, b + 1)
        ELSE -1

\* re.sub(r'\s*-\s*-\s*', ' - ', s)
RECURSIVE CollapseDashes(_, _)
CollapseDashes(s, i) ==
    IF i >= Len(s) THEN ""
    ELSE IF DoubleDashEnd(s, i) # -1
         THEN " - " \o CollapseDashes(s, DoubleDashEnd(s, i))
         ELSE Char(s, i) \o CollapseDashes(s, i + 1)

RECURSIVE ReplaceAllWithDash(_, _, _)
ReplaceAllWithDash(s, strs, k) ==
    IF k > Len(strs) THEN s
    ELSE ReplaceAllWithDash(Replace(s, strs[k], " - "), strs, k + 1)

\* _apply_string_replacement on an ASCII string (NFC normalisation and the
\* table of typographic characters leave ASCII text as it is);
\* replace_strings is the list the call obtains from the loader
_apply_string_replacement(cl, replace_strings) ==
    Strip(CollapseSpaces(
        CollapseDashes(ReplaceAllWithDash(cl, replace_strings, 1), 0), 0))

\* the underscore at offset i of s touches whitespace:
\* (?<=\s)_(?=\s)|(?<=\s)_|_(?=\s)
AdjacentUnderscore(s, i) ==
    /\ Char(s, i) = "_"
    /\ \/ (i > 0 /\ Char(s, i - 1) \in Whitespace)
       \/ (i + 1 < Len(s) /\ Char(s, i + 1) \in Whitespace)

\* (?<!\s)_(?!\s)
LoneUnderscore(s, i) == Char(s, i) = "_" /\ ~AdjacentUnderscore(s, i)

RECURSIVE RemoveAdjacent(_, _)
RemoveAdjacent(s, i) ==
    IF i >= Len(s) THEN ""
    ELSE (IF AdjacentUnderscore(s, i) THEN "" ELSE Char(s, i))
         \o RemoveAdjacent(s, i + 1)

RECURSIVE SpaceLone(_, _)
SpaceLone(s, i) ==
    IF i >= Len(s) THEN ""
    ELSE (IF LoneUnderscore(s, i) THEN " " ELSE Char(s, i))
         \o SpaceLone(s, i + 1)

ReviewFlag == RemovedToken("REVIEW_FLAG", "whitespace_handling", 0)

\* _apply_whitespace_handling: [cleaned, removed]
_apply_whitespace_handling(cl) ==
    [cleaned |-> SpaceLone(RemoveAdjacent(cl, 0), 0),
     removed |-> IF \E i \in 0..(Len(cl) - 1) : AdjacentUnderscore(cl, i)
                 THEN <<ReviewFlag>> ELSE <<>>]

\* offset of the dot that starts Path(text).suffix, or -1
SuffixDot(text) ==
    LET i == RFind(text, ".", Len(text) - 1)
    IN  IF 0 < i /\ i < Len(text) - 1 THEN i ELSE -1

\* _strip_known_extension, for a text without "/"
_strip_known_extension(text) ==
    LET i == SuffixDot(text)
    IN  IF i # -1 /\ Lower(From(text, i + 1)) \in Extensions
        THEN Slice(text, 0, i)
        ELSE text

(***************************************************************************)
(* PreTokenizer.process as a state machine, one action per step            *)
(***************************************************************************)
PreParts == <<"HQ", "a ", "_", "b.mp4", "~", "720p", "-", " ", "d/">>
MaxPreParts == 3

RECURSIVE PreAssemble(_)
PreAssemble(ps) == IF ps = <<>> THEN "" ELSE PreParts[Head(ps)] \o PreAssemble(Tail(ps))

PreFilenames ==
    { PreAssemble(ps) :
        ps \in UNION { [1..n -> 1..Len(PreParts)] : n \in 0..MaxPreParts } }

PreInit ==
    /\ preIn \in PreFilenames
    /\ prePc = "start"
    /\ preCat = 0
    /\ prePrev = ""
    /\ preCleaned = ""
    /\ preRemoved = <<>>
    /\ IdleOutsidePre

PreStep(from, to, out, removed) ==
    /\ prePc = from
    /\ prePc' = to
    /\ prePrev' = preCleaned
    /\ preCleaned' = out
    /\ preRemoved' = preRemoved \o removed
    /\ UNCHANGED <<preIn, outsidePre>>

\* result = PreTokenizationResult(original, cleaned=basename, [])
PreBegin ==
    /\ PreStep("start", "categories", Basename(preIn), <<>>)
    /\ preCat' = 1

\* one iteration of the loop over the categories
PreRemoveCategory ==
    /\ preCat \in 1..Len(EarlyRemovalCategories)
    /\ PreStep("categories",
               IF preCat = Len(EarlyRemovalCategories) THEN "trim" ELSE "categories",
               _apply_category_removal(preCleaned, EarlyRemovalCategories[preCat]).cleaned,
               _apply_category_removal(preCleaned, EarlyRemovalCategories[preCat]).removed)
    /\ preCat' = preCat + 1

PreTrim ==
    /\ PreStep("trim", "replace", trim(TrimmingStrings, preCleaned), <<>>)
    /\ UNCHANGED preCat

PreReplace ==
    /\ PreStep("replace", "underscores",
               _apply_string_replacement(preCleaned, ReplaceWithDash), <<>>)
    /\ UNCHANGED preCat

PreWhitespace ==
    /\ PreStep("underscores", "extension",
               _apply_whitespace_handling(preCleaned).cleaned,
               _apply_whitespace_handling(preCleaned).removed)
    /\ UNCHANGED preCat

PreStripExtension ==
    /\ PreStep("extension", "final", _strip_known_extension(preCleaned), <<>>)
    /\ UNCHANGED preCat

PreFinalTrim ==
    /\ PreStep("final", "done", trim(TrimmingStrings, preCleaned), <<>>)
    /\ UNCHANGED preCat

PreNext ==
    \/ PreBegin
    \/ PreRemoveCategory
    \/ PreTrim
    \/ PreReplace
    \/ PreWhitespace
    \/ PreStripExtension
    \/ PreFinalTrim

PreSpec == PreInit /\ [][PreNext]_vars

(***************************************************************************)
(* Concurrent parse() calls on one FilenameParser.  Of a parse only        *)
(* PreTokenizer.process touches DictionaryLoader: _apply_string_replacement*)
(* calls load_dictionary('parser-dictionary.json') on every call.  The     *)
(* steps of load_dictionary are separate actions, since another thread can *)
(* run between the membership test and the read of _cache.                 *)
(***************************************************************************)
Parses == {1, 2}

ParFilenames == {"a~b", "HQ a_b.mp4", "d/c"}

ParserDictionary == "parser-dictionary.json"

RECURSIVE AfterCategories(_, _)
AfterCategories(cl, k) ==
    IF k > Len(EarlyRemovalCategories) THEN cl
    ELSE AfterCategories(
             _apply_category_removal(cl, EarlyRemovalCategories[k]).cleaned, k + 1)

\* PreTokenizer.process up to the call of _apply_string_replacement
BeforeReplacement(filename) ==
    trim(TrimmingStrings, AfterCategories(Basename(filename), 1))

\* PreTokenizer.process from _apply_string_replacement on, with the
\* replace_with_dash list the loaded config gave
FromReplacement(cl, replace_strings) ==
    trim(TrimmingStrings,
         _strip_known_extension(
             _apply_whitespace_handling(
                 _apply_string_replacement(cl, replace_strings)).cleaned))

\* config.get('replace_with_dash', []) of `load_dictionary(...) or {}`
ReplaceStringsOf(config) == IF config = "table" THEN ReplaceWithDash ELSE <<>>

\* result.cleaned of a parse that runs alone on a freshly built parser
ProcessAlone(filename) ==
    FromReplacement(BeforeReplacement(filename), ReplaceWithDash)

\* FilenameParser.__init__ has run: preload_all filled _cache from readable files
ParInit ==
    /\ files = [t \in Tables |-> "ok"]
    /\ cache = [t \in Tables |-> TRUE]
    /\ built = NotBuilt
    /\ parIn \in [Parses -> ParFilenames]
    /\ parPc = [p \in Parses |-> "start"]
    /\ parCleaned = [p \in Parses |-> ""]
    /\ parConfig = [p \in Parses |-> "unset"]
    /\ parIO = [p \in Parses |-> {}]
    /\ parRaised = [p \in Parses |-> None]
    /\ IdleOutsidePar

ParGoto(p, to) == parPc' = [parPc EXCEPT ![p] = to]

\* categories and trimming: local to the call
ParBegin(p) ==
    /\ parPc[p] = "start"
    /\ ParGoto(p, "test")
    /\ parCleaned' = [parCleaned EXCEPT ![p] = BeforeReplacement(parIn[p])]
    /\ UNCHANGED <<parIn, parConfig, parIO, parRaised, loadVars, outsidePar>>

\* load_dictionary: `if use_cache and dictionary_name in cls._cache`
ParTestCache(p) ==
    /\ parPc[p] = "test"
    /\ ParGoto(p, IF cache[ParserDictionary] THEN "hit" ELSE "miss")
    /\ UNCHANGED <<parIn, parCleaned, parConfig, parIO, parRaised, loadVars,
                   outsidePar>>

\* load_dictionary: `return cls._cache[dictionary_name]`
ParReadCache(p) ==
    /\ parPc[p] = "hit"
    /\ IF cache[ParserDictionary]
       THEN /\ ParGoto(p, "loaded")
            /\ parConfig' = [parConfig EXCEPT ![p] = "table"]
            /\ UNCHANGED parRaised
       ELSE /\ ParGoto(p, "raised")
            /\ parRaised' = [parRaised EXCEPT ![p] = "KeyError"]
            /\ UNCHANGED parConfig
    /\ UNCHANGED <<parIn, parCleaned, parIO, loadVars, outsidePar>>

\* load_dictionary: open, json.load, `cls._cache[dictionary_name] = dictionary`
\* (the call is past the cache test, so it opens the file whatever _cache
\* holds by now: load_dictionary(name, FALSE) is that path)
ParReadFile(p) ==
    /\ parPc[p] = "miss"
    /\ ParGoto(p, IF load_dictionary(ParserDictionary, FALSE).raised = None
                  THEN "loaded" ELSE "raised")
    /\ parConfig' = [parConfig EXCEPT
                        ![p] = load_dictionary(ParserDictionary, FALSE).value]
    /\ parRaised' = [parRaised EXCEPT
                        ![p] = load_dictionary(ParserDictionary, FALSE).raised]
    /\ parIO' = [parIO EXCEPT
                    ![p] = IF load_dictionary(ParserDictionary, FALSE).value = None
                           THEN {"read"} ELSE {"read", "write"}]
    /\ cache' = IF load_dictionary(ParserDictionary, FALSE).value = None
                THEN cache ELSE [cache EXCEPT ![ParserDictionary] = TRUE]
    /\ UNCHANGED <<parIn, parCleaned, files, built, outsidePar>>

\* the rest of PreTokenizer.process
ParFinish(p) ==
    /\ parPc[p] = "loaded"
    /\ ParGoto(p, "done")
    /\ parCleaned' = [parCleaned EXCEPT
                         ![p] = FromReplacement(parCleaned[p],
                                                ReplaceStringsOf(parConfig[p]))]
    /\ UNCHANGED <<parIn, parConfig, parIO, parRaised, loadVars, outsidePar>>

ParNext ==
    \/ \E p \in Parses : ParBegin(p)
    \/ \E p \in Parses : ParTestCache(p)
    \/ \E p \in Parses : ParReadCache(p)
    \/ \E p \in Parses : ParReadFile(p)
    \/ \E p \in Parses : ParFinish(p)
    \/ LoadDictionary
    \/ ClearCache
    \/ ClearCacheAll

ParSpec == ParInit /\ [][ParNext]_vars

(***************************************************************************)
(* BatchProcessor (src/modules/batch_processor.py): one _process_batch     *)
(* call on dict items.  An update is a record of the keys id, studio_name, *)
(* studio_id and title; Absent stands for a key the dict does not have.    *)
(***************************************************************************)
Absent == "<absent>"

MaxBatch == 2
MaxTitle == 500

\* what the Stash server answers to findStudios with EQUALS and with INCLUDES
StashExact == [name \in {"Acme"} |-> "9"]
StashIncludes == [name \in {"Acme", "Acm"} |-> "9"]

\* StashClient.find_studio_by_name: the id of the studio found, or None
find_studio_by_name(name, exact) ==
    IF exact
    THEN IF name \in DOMAIN StashExact THEN StashExact[name] ELSE None
    ELSE IF name \in DOMAIN StashIncludes THEN StashIncludes[name] ELSE None

\* the two lookups of _resolve_studio_id: exact first, then inexact
FindStudioId(studio_name_key) ==
    IF find_studio_by_name(studio_name_key, TRUE) # None
    THEN find_studio_by_name(studio_name_key, TRUE)
    ELSE find_studio_by_name(studio_name_key, FALSE)

\* BatchProcessor._resolve_studio_id with _studio_name_cache = c; `up` is
\* whether the GraphQL call reaches the server (it raises otherwise)
_resolve_studio_id(studio_name, c, up) ==
    IF Strip(studio_name) = ""
    THEN [id |-> None, cache |-> c, raised |-> FALSE]
    ELSE IF Strip(studio_name) \in DOMAIN c
    THEN [id |-> c[Strip(studio_name)], cache |-> c, raised |-> FALSE]
    ELSE IF ~up
    THEN [id |-> None, cache |-> c, raised |-> TRUE]
    ELSE [id |-> FindStudioId(Strip(studio_name)),
          cache |-> [k \in DOMAIN c \cup {Strip(studio_name)} |->
                        IF k = Strip(studio_name)
                        THEN FindStudioId(Strip(studio_name)) ELSE c[k]],
          raised |-> FALSE]

NeedsResolution(item) == item.studio_name # Absent /\ item.studio_id = Absent

\* the update keeps studio_name
PrepareKeepingName(item, c, up) ==
    IF NeedsResolution(item)
    THEN [update |-> IF Truthy(_resolve_studio_id(item.studio_name, c, up).id)
                     THEN [item EXCEPT
                              !.studio_id =
                                  _resolve_studio_id(item.studio_name, c, up).id]
                     ELSE item,
          cache |-> _resolve_studio_id(item.studio_name, c, up).cache,
          raised |-> _resolve_studio_id(item.studio_name, c, up).raised]
    ELSE [update |-> item, cache |-> c, raised |-> FALSE]

\* BatchProcessor._prepare_update on a dict item
_prepare_update(item, c, up) ==
    IF NeedsResolution(item)
    THEN [update |-> IF Truthy(_resolve_studio_id(item.studio_name, c, up).id)
                     THEN [item EXCEPT
                              !.studio_id =
                                  _resolve_studio_id(item.studio_name, c, up).id,
                              !.studio_name = Absent]
                     ELSE [item EXCEPT !.studio_name = Absent],
          cache |-> _resolve_studio_id(item.studio_name, c, up).cache,
          raised |-> _resolve_studio_id(item.studio_name, c, up).raised]
    ELSE [update |-> [item EXCEPT !.studio_name = Absent], cache |-> c,
          raised |-> FALSE]

\* set(update_data.keys()) <= {"id"}
_is_noop_update(update_data) ==
    /\ update_data.studio_name = Absent
    /\ update_data.studio_id = Absent
    /\ update_data.title = Absent

\* BatchProcessor._validate_update: the error, None when valid
_validate_update(update_data) ==
    IF update_data.id = Absent THEN "Missing scene ID"
    ELSE IF _is_noop_update(update_data) THEN "No approved fields to update"
    ELSE IF update_data.title # Absent /\ Len(update_data.title) > MaxTitle
    THEN "Title too long (max 500 characters)"
    ELSE IF update_data.studio_id # Absent /\ ~Truthy(update_data.studio_id)
    THEN "Studio ID could not be resolved"
    ELSE None

BatchStudioNames == {Absent, "Acme", " Acm ", "Nope", " "}
BatchStudioIds == {Absent, "7", ""}
BatchTitles == {Absent, "T"}

\* the batches: the k-th item is the update of scene k
Batches ==
    UNION { [1..n -> [studio_name : BatchStudioNames, studio_id : BatchStudioIds,
                      title : BatchTitles]] : n \in 1..MaxBatch }

BatchItem(b, k) ==
    [id |-> ToString(k), studio_name |-> b[k].studio_name,
     studio_id |-> b[k].studio_id, title |-> b[k].title]

BatchInit ==
    /\ \E b \in Batches : batIn = [k \in DOMAIN b |-> BatchItem(b, k)]
    /\ batDry \in BOOLEAN
    /\ batPc = "items"
    /\ batIdx = 1
    /\ batUpdates = <<>>
    /\ batSkipped = 0
    /\ batErrors = <<>>
    /\ batCache = <<>>
    /\ batSent = None
    /\ IdleOutsideBat

BatchError(scene_id, error, type) == [scene_id |-> scene_id, error |-> error, type |-> type]

\* what one iteration of the loop does with the prepared update p
BatchCollect(p) ==
    /\ batCache' = p.cache
    /\ IF p.raised
       THEN /\ batErrors' = Append(batErrors,
                   BatchError(batIn[batIdx].id, "Update preparation failed", "preparation"))
            /\ UNCHANGED <<batUpdates, batSkipped>>
       ELSE IF _is_noop_update(p.update)
       THEN /\ batSkipped' = batSkipped + 1
            /\ UNCHANGED <<batUpdates, batErrors>>
       ELSE IF _validate_update(p.update) # None
       THEN /\ batErrors' = Append(batErrors,
                   BatchError(p.update.id, _validate_update(p.update), "validation"))
            /\ UNCHANGED <<batUpdates, batSkipped>>
       ELSE /\ batUpdates' = Append(batUpdates, p.update)
            /\ UNCHANGED <<batSkipped, batErrors>>

\* one iteration of `for item in batch`
BatchPrepare ==
    /\ batPc = "items"
    /\ batIdx <= Len(batIn)
    /\ \E up \in BOOLEAN : BatchCollect(_prepare_update(batIn[batIdx], batCache, up))
    /\ batIdx' = batIdx + 1
    /\ batPc' = IF batIdx = Len(batIn) THEN "collected" ELSE "items"
    /\ UNCHANGED <<batIn, batDry, batSent, outsideBat>>

\* `if dry_run:` and `if not update_data:` return without a call
BatchReturnEarly ==
    /\ batPc = "collected"
    /\ batDry \/ batUpdates = <<>>
    /\ batPc' = "done"
    /\ UNCHANGED <<batIn, batDry, batIdx, batUpdates, batSkipped, batErrors,
                   batCache, batSent, outsideBat>>

\* self.stash_client.bulk_update_scenes(update_data); every result is truthy,
\* some is not, or the call raises
BatchSend ==
    /\ batPc = "collected"
    /\ ~batDry /\ batUpdates # <<>>
    /\ batSent' = batUpdates
    /\ \E outcome \in {"ok", "no result", "raised"} :
          batErrors' =
              IF outcome = "ok" THEN batErrors
              ELSE IF outcome = "no result"
              THEN Append(batErrors,
                          BatchError(batUpdates[1].id, "API returned no result", "api"))
              ELSE Append(batErrors, BatchError(None, "Bulk update failed", "api"))
    /\ batPc' = "done"
    /\ UNCHANGED <<batIn, batDry, batIdx, batUpdates, batSkipped, batCache,
                   outsideBat>>

BatchNext ==
    \/ BatchPrepare
    \/ BatchReturnEarly
    \/ BatchSend

BatchSpec == BatchInit /\ [][BatchNext]_vars

(***************************************************************************)
(* SceneTransformer.metadata_to_update (src/modules/scene_transformer.py), *)
(* one action per iteration of the loop over approved_fields.              *)
(***************************************************************************)
UpdateFields == <<"studio", "title", "date", "studio_code">>

\* original=None: no Scene is given
NoScene == <<>>

\* getattr(parsed, field_name) and the attribute of Scene that holds the field
ParsedField(parsed, field_name) ==
    CASE field_name = "studio" -> parsed.studio
      [] field_name = "title" -> parsed.title
      [] field_name = "date" -> parsed.date
      [] OTHER -> parsed.studio_code

\* approved_fields when the caller passes None
DefaultApproved(parsed) ==
    SelectSeq(UpdateFields, LAMBDA f : ParsedField(parsed, f) # None)

\* bool((value or "").strip())
HasText(value) == value # None /\ Strip(value) # ""

\* only the studio of the original scene is looked at
OriginalHasStudioOnly(original, field_name) ==
    original # NoScene /\ field_name = "studio" /\ original.studio # None

\* the local function original_has_value of metadata_to_update
original_has_value(original, field_name) ==
    IF original = NoScene THEN FALSE
    ELSE CASE field_name = "studio" -> original.studio # None
           [] field_name = "title" -> HasText(original.title)
           [] field_name = "date" -> HasText(original.date)
           [] field_name = "studio_code" -> HasText(original.code)
           [] OTHER -> FALSE

\* the body of `for field_name in approved_fields`
ApplyField(update, parsed, original, field_name) ==
    IF original_has_value(original, field_name) THEN update
    ELSE IF field_name = "studio" /\ Truthy(parsed.studio)
    THEN [update EXCEPT !.studio_name = parsed.studio]
    ELSE IF field_name = "title" /\ Truthy(parsed.title)
    THEN [update EXCEPT !.title = parsed.title]
    ELSE IF field_name = "date" /\ Truthy(parsed.date)
    THEN [update EXCEPT !.date = parsed.date]
    ELSE IF field_name = "studio_code" /\ Truthy(parsed.studio_code)
    THEN [update EXCEPT !.code = parsed.studio_code]
    ELSE update

InList(x, list) == \E i \in DOMAIN list : list[i] = x

\* SceneTransformer._should_mark_organized
_should_mark_organized(parsed, approved_fields) ==
    LET has(f) == InList(f, approved_fields) /\ ParsedField(parsed, f) # None
    IN  \/ has("studio") /\ has("title")
        \/ has("studio") /\ (has("date") \/ has("studio_code"))

\* self.mark_organized as __init__ sets it
SelfMarkOrganized == FALSE

ParsedInputs ==
    [studio : {None, "S"}, title : {None, "", "T"}, date : {None, "D"},
     studio_code : {None, "C"}]

OriginalInputs ==
    {NoScene} \cup [studio : {None, "Old"}, title : {None, " ", "Old"},
                 date : {None, "Old"}, code : {"", "Old"}]

ApprovedInputs ==
    {None, <<>>, <<"studio", "title", "date", "studio_code">>,
     <<"studio_code", "date", "title", "studio">>, <<"title", "title">>,
     <<"studio", "performers">>, <<"date">>, <<"title", "studio_code">>}

MtuInit ==
    /\ mtuParsed \in ParsedInputs
    /\ mtuOriginal \in OriginalInputs
    /\ mtuApproved \in ApprovedInputs
    /\ mtuMark \in {None, "True", "False"}
    /\ mtuPc = "start"
    /\ mtuIdx = 0
    /\ mtuUpdate = <<>>
    /\ IdleOutsideMtu

\* update = {"id": scene_id} and the default of approved_fields
MtuBegin ==
    /\ mtuPc = "start"
    /\ mtuUpdate' = [id |-> "1", studio_name |-> Absent, title |-> Absent,
                     date |-> Absent, code |-> Absent, organized |-> Absent]
    /\ mtuApproved' = IF mtuApproved = None THEN DefaultApproved(mtuParsed)
                      ELSE mtuApproved
    /\ mtuIdx' = 1
    /\ mtuPc' = "fields"
    /\ UNCHANGED <<mtuParsed, mtuOriginal, mtuMark, outsideMtu>>

MtuField ==
    /\ mtuPc = "fields"
    /\ mtuIdx <= Len(mtuApproved)
    /\ mtuUpdate' = ApplyField(mtuUpdate, mtuParsed, mtuOriginal, mtuApproved[mtuIdx])
    /\ mtuIdx' = mtuIdx + 1
    /\ UNCHANGED <<mtuParsed, mtuOriginal, mtuApproved, mtuMark, mtuPc, outsideMtu>>

\* the resolved mark_organized and the return
MtuReturn ==
    /\ mtuPc = "fields"
    /\ mtuIdx > Len(mtuApproved)
    /\ mtuUpdate' =
          IF (IF mtuMark = None THEN SelfMarkOrganized ELSE mtuMark = "True")
             /\ _should_mark_organized(mtuParsed, mtuApproved)
          THEN [mtuUpdate EXCEPT !.organized = "True"]
          ELSE mtuUpdate
    /\ mtuPc' = "done"
    /\ UNCHANGED <<mtuParsed, mtuOriginal, mtuApproved, mtuMark, mtuIdx, outsideMtu>>

MtuNext ==
    \/ MtuBegin
    \/ MtuField
    \/ MtuReturn

MtuSpec == MtuInit /\ [][MtuNext]_vars

(***************************************************************************)
(* BatchProcessor.process_updates and process_updates_parallel: one action *)
(* per batch, which is a whole _process_batch call and the caller's        *)
(* bookkeeping for it.  progress_callback is None.                         *)
(***************************************************************************)
MaxRequests == 3

BatchSizes == {1, 2}

\* the dict items of the requests: one that is sent, one with nothing to
\* update, one that fails validation, one whose studio has to be looked up
RequestKinds ==
    { [studio_name |-> Absent, studio_id |-> Absent, title |-> "T"],
      [studio_name |-> Absent, studio_id |-> Absent, title |-> Absent],
      [studio_name |-> Absent, studio_id |-> "", title |-> "T"],
      [studio_name |-> "Acme", studio_id |-> Absent, title |-> Absent] }

RequestLists == UNION { [1..n -> RequestKinds] : n \in 0..MaxRequests }

\* range(0, total_scenes, batch_size) as batch numbers, and the batch of each
BatchCount(total, batch_size) == (total + batch_size - 1) \div batch_size

BatchOf(requests, batch_size, k) ==
    SubSeq(requests, (k - 1) * batch_size + 1,
           Min2(k * batch_size, Len(requests)))

\* the loop over the items of _process_batch: the number of updates
\* collected, of failures and of skips, and _studio_name_cache afterwards;
\* ups[i] says whether the lookups of item i reach the server
RECURSIVE PrepareItems(_, _, _, _)
PrepareItems(items, i, ups, acc) ==
    IF i > Len(items) THEN acc
    ELSE LET p == _prepare_update(items[i], acc.cache, ups[i])
         IN  PrepareItems(items, i + 1, ups,
                 IF p.raised
                 THEN [acc EXCEPT !.failed = @ + 1, !.cache = p.cache]
                 ELSE IF _is_noop_update(p.update)
                 THEN [acc EXCEPT !.skipped = @ + 1, !.cache = p.cache]
                 ELSE IF _validate_update(p.update) # None
                 THEN [acc EXCEPT !.failed = @ + 1, !.cache = p.cache]
                 ELSE [acc EXCEPT !.updates = @ + 1, !.cache = p.cache])

\* what bulk_update_scenes does: it raises, or returns a list whose entries
\* are a scene (TRUE) or nothing (FALSE); the list has any length up to one
\* more than the number of updates
ApiResponses(n) ==
    [raised : {TRUE}, results : {<<>>}]
        \cup [raised : {FALSE}, results : UNION { [1..m -> BOOLEAN] : m \in 0..(n + 1) }]

\* `for idx, result in enumerate(api_results)`: update_data[idx] raises
\* IndexError past the end of update_data, after failed was incremented, and
\* the except clause then adds len(update_data)
RECURSIVE CountResults(_, _, _, _)
CountResults(results, i, n, acc) ==
    IF i > Len(results) THEN acc
    ELSE IF results[i]
    THEN CountResults(results, i + 1, n, [acc EXCEPT !.successful = @ + 1])
    ELSE IF i > n
    THEN [acc EXCEPT !.failed = @ + 1 + n]
    ELSE CountResults(results, i + 1, n, [acc EXCEPT !.failed = @ + 1])

\* the dict _process_batch returns, with the cache and what it sent
ProcessBatchResult(items, dry_run, c, ups, api) ==
    LET prepared == PrepareItems(items, 1, ups,
                        [updates |-> 0, failed |-> 0, skipped |-> 0, cache |-> c])
        base == [successful |-> 0, failed |-> prepared.failed,
                 skipped |-> prepared.skipped, cache |-> prepared.cache,
                 sent |-> 0, api_raised |-> FALSE]
    IN  IF dry_run THEN [base EXCEPT !.successful = prepared.updates]
        ELSE IF prepared.updates = 0 THEN base
        ELSE IF api.raised
        THEN [base EXCEPT !.failed = @ + prepared.updates,
                          !.sent = prepared.updates, !.api_raised = TRUE]
        ELSE CountResults(api.results, 1, prepared.updates,
                          [base EXCEPT !.sent = prepared.updates])

\* the loop stops at the first batch that fails
RunAbortOnFailure(left, k, failed) == IF failed THEN {} ELSE left \ {k}

\* the batches still to come once batch k has returned or raised
RunRemaining(left, k, failed) == left \ {k}

RunInit ==
    /\ runIn \in RequestLists
    /\ runSize \in BatchSizes
    /\ runMode \in {"sequential", "parallel"}
    /\ runDry \in BOOLEAN
    /\ runPc = "start"
    /\ runLeft = {}
    /\ runCounts = [successful |-> 0, failed |-> 0, skipped |-> 0]
    /\ runCache = <<>>
    /\ runLog = <<>>
    /\ IdleOutsideRun

RunItems == [k \in DOMAIN runIn |->
                [id |-> ToString(k), studio_name |-> runIn[k].studio_name,
                 studio_id |-> runIn[k].studio_id, title |-> runIn[k].title]]

\* total_scenes, the counters, and the batches of the loop or of the executor
RunStart ==
    /\ runPc = "start"
    /\ runPc' = "batches"
    /\ runLeft' = 1..BatchCount(Len(runIn), runSize)
    /\ UNCHANGED <<runIn, runSize, runMode, runDry, runCounts, runCache, runLog,
                   outsideRun>>

\* batch k returned r: the counters are added up
RunReturned(k, r) ==
    /\ runCounts' = [successful |-> runCounts.successful + r.successful,
                     failed |-> runCounts.failed + r.failed,
                     skipped |-> runCounts.skipped + r.skipped]
    /\ runCache' = r.cache
    /\ runLog' = [j \in DOMAIN runLog \cup {k} |->
                     IF j = k
                     THEN [successful |-> r.successful, failed |-> r.failed,
                           skipped |-> r.skipped, sent |-> r.sent,
                           how |-> IF r.api_raised THEN "api raised" ELSE "returned"]
                     ELSE runLog[j]]
    /\ runLeft' = RunRemaining(runLeft, k, r.api_raised)

\* an exception escaped _process_batch for batch k: `except Exception`
RunRaised(k) ==
    /\ runCounts' = [runCounts EXCEPT
                        !.failed = @ + Len(BatchOf(RunItems, runSize, k))]
    /\ runLog' = [j \in DOMAIN runLog \cup {k} |->
                     IF j = k
                     THEN [successful |-> 0,
                           failed |-> Len(BatchOf(RunItems, runSize, k)),
                           skipped |-> 0, sent |-> 0, how |-> "escaped"]
                     ELSE runLog[j]]
    /\ runLeft' = RunRemaining(runLeft, k, TRUE)
    /\ UNCHANGED runCache

RunBatch(k) ==
    /\ runPc = "batches"
    /\ k \in runLeft
    /\ \/ \E ups \in [1..Len(BatchOf(RunItems, runSize, k)) -> BOOLEAN],
             api \in ApiResponses(Len(BatchOf(RunItems, runSize, k))) :
              RunReturned(k, ProcessBatchResult(BatchOf(RunItems, runSize, k),
                                                runDry, runCache, ups, api))
       \/ RunRaised(k)
    /\ UNCHANGED <<runIn, runSize, runMode, runDry, runPc, outsideRun>>

\* process_updates: the batches in order
RunBatchSequential ==
    /\ runMode = "sequential"
    /\ \E k \in runLeft : (\A j \in runLeft : k <= j) /\ RunBatch(k)

\* process_updates_parallel: as_completed yields the batches in any order
RunBatchParallel ==
    /\ runMode = "parallel"
    /\ \E k \in runLeft : RunBatch(k)

\* the BatchResult is built
RunFinish ==
    /\ runPc = "batches"
    /\ runLeft = {}
    /\ runPc' = "done"
    /\ UNCHANGED <<runIn, runSize, runMode, runDry, runLeft, runCounts, runCache,
                   runLog, outsideRun>>

RunNext ==
    \/ RunStart
    \/ RunBatchSequential
    \/ RunBatchParallel
    \/ RunFinish

RunSpec == RunInit /\ [][RunNext]_vars

(***************************************************************************)
(* StashClient.call_graphql (modules/stash_client.py)                      *)
(***************************************************************************)
\* self.max_retries and self.retry_delay (seconds) as __init__ sets them
MaxRetries == 3
RetryDelay == 1

RECURSIVE Pow2(_)
Pow2(n) == IF n = 0 THEN 1 ELSE 2 * Pow2(n - 1)

\* what one request attempt can come to: a 200 response with data, a 200
\* response whose data is missing or null, a status other than 200, a
\* response with GraphQL errors, requests.post raising (timeout, connection),
\* response.json() raising
GqlSuccesses == {"data", "no_data"}
GqlFailures == {"http_status", "graphql_errors", "post_raises", "json_raises"}

\* result.get("data", {}) or {}
GqlData(outcome) == IF outcome = "data" THEN "data" ELSE "{}"

\* a retry that does not look at the number of the attempt
GqlAlwaysRetry(attempt) == TRUE

\* `if attempt < self.max_retries - 1`
GqlShouldRetry(attempt) == attempt < MaxRetries - 1

GqlInit ==
    /\ gqlPc = "try" /\ gqlAttempt = 0 /\ gqlLog = <<>> /\ gqlSleeps = <<>>
    /\ gqlResult = None
    /\ IdleOutsideGql

\* one pass of the loop body up to return, raise or time.sleep
GqlAttempt ==
    /\ gqlPc = "try"
    /\ gqlAttempt < MaxRetries
    /\ \E outcome \in GqlSuccesses \cup GqlFailures :
          /\ gqlLog' = Append(gqlLog, outcome)
          /\ IF outcome \in GqlSuccesses
             THEN /\ gqlPc' = "returned"
                  /\ gqlResult' = GqlData(outcome)
             ELSE IF GqlShouldRetry(gqlAttempt)
             THEN /\ gqlPc' = "sleep"
                  /\ gqlResult' = gqlResult
             ELSE /\ gqlPc' = "raised"
                  /\ gqlResult' = "RuntimeError: GraphQL query failed after retries"
    /\ UNCHANGED <<gqlAttempt, gqlSleeps>>
    /\ UNCHANGED outsideGql

\* time.sleep(self.retry_delay * (2**attempt)); continue
GqlSleep ==
    /\ gqlPc = "sleep"
    /\ gqlSleeps' = Append(gqlSleeps, RetryDelay * Pow2(gqlAttempt))
    /\ gqlAttempt' = gqlAttempt + 1
    /\ gqlPc' = "try"
    /\ UNCHANGED <<gqlLog, gqlResult>>
    /\ UNCHANGED outsideGql

\* the raise after the loop is never executed: the last pass returns or raises
GqlNext == GqlAttempt \/ GqlSleep

GqlSpec == GqlInit /\ [][GqlNext]_vars

\* the call runs on: no step of it waits for anything but the timeout of the
\* request and the end of the sleep
GqlLiveSpec == GqlSpec /\ WF_vars(GqlNext)

(***************************************************************************)
(* Properties of the pipeline                                              *)
(***************************************************************************)
GenericTypes == {"text", "bracket", "parenthesis", "curly"}

Iota(n) == [k \in 1..n |-> k - 1]

\* the markers of a pattern, left to right: K for {tokenK}, -1 for {junk}
RECURSIVE Markers(_)
Markers(pattern) ==
    LET i == Find(pattern, "{token", 0)
        j == Find(pattern, "{junk}", 0)
    IN  IF i = -1 /\ j = -1 THEN <<>>
        ELSE IF j # -1 /\ (i = -1 \/ j < i)
        THEN <<-1>> \o Markers(From(pattern, j + 6))
        ELSE LET n == DigitRun(pattern, i + 6)
                 e == i + 6 + n
             IN  IF n >= 1 /\ e < Len(pattern) /\ Char(pattern, e) = "}"
                 THEN <<ParseInt(Slice(pattern, i + 6, e))>> \o Markers(From(pattern, e + 1))
                 ELSE Markers(From(pattern, i + 1))

\* the indices K of the numbered placeholders {tokenK} of a pattern, left to right
PlaceholderIndices(pattern) == SelectSeq(Markers(pattern), LAMBDA k : k >= 0)

\* the indices, among the non-path tokens, of the tokens that are still generic
RECURSIVE GenericFrom(_, _)
GenericFrom(np, k) ==
    IF k > Len(np) THEN <<>>
    ELSE (IF np[k].type \in GenericTypes THEN <<k - 1>> ELSE <<>>) \o GenericFrom(np, k + 1)

GenericIndices(tokens) == GenericFrom(NonPath(tokens), 1)

SlotsFollowTokens(r) == PlaceholderIndices(r.pattern) = GenericIndices(r.tokens)

RECURSIVE Claimed(_)
Claimed(tokens) ==
    IF tokens = <<>> THEN <<>>
    ELSE (IF Head(tokens).type \in GenericTypes THEN <<>>
          ELSE <<[type |-> Head(tokens).type, value |-> Head(tokens).value]>>)
         \o Claimed(Tail(tokens))

RECURSIVE IsSubsequence(_, _)
IsSubsequence(a, b) ==
    IF a = <<>> THEN TRUE
    ELSE IF b = <<>> THEN FALSE
    ELSE IF Head(a) = Head(b) THEN IsSubsequence(Tail(a), Tail(b))
    ELSE IsSubsequence(a, Tail(b))

\* C2 as stated: every token a stage receives with a non-generic type is still in
\* the stage's output with the same type and value, in the same order.
C2_ClaimedTokensKept ==
    pc \in {"dated", "studio", "dash", "partial", "seeded", "coded", "performers", "done"}
        => IsSubsequence(Claimed(prev.tokens), Claimed(res.tokens))

\* C3 as stated: a studio recorded by a studio pass is not changed by the next
\* studio pass nor by existing_studio seeding.
C3_FoundStudioKept ==
    (pc \in {"dash", "partial", "seeded"} /\ prev.studio # None)
        => res.studio = prev.studio

\* C4 as stated: PerformerMatcher and the final stage hand on studio_code and
\* studio as they received them.
C4_FieldsPassedOn ==
    pc \in {"performers", "done"}
        => res.studio_code = prev.studio_code /\ res.studio = prev.studio

\* C5 as stated: a non-empty existing_studio other than "unknown" seeds an unset
\* studio; None, "" and "unknown" never seed.
C5_SeedingRule ==
    pc = "seeded" =>
        /\ (existing \notin {None, "", "unknown"} /\ prev.studio = None)
               => res.studio = existing
        /\ existing \in {None, "", "unknown"} => res.studio = prev.studio

ExistingValue == IF existing = None THEN "" ELSE Strip(existing)

\* the result of the three studio passes on the filename
AfterStudioPasses ==
    process_partial_match_fallback(process_dash_fallback(
        StudioProcess(DateProcess(tokenize(cleaned)))))

\* the studio the studio passes find in the filename
FoundStudio == AfterStudioPasses.studio

\* the studio the filename yields by itself, a can_set code rule included
FilenameStudio == CodeProcess(AfterStudioPasses).studio

FoundIsUnknown == FoundStudio # None /\ Lower(Strip(FoundStudio)) = "unknown"

RawTokens == _extract_tokens(_extract_path(cleaned).filename)

\* the markers the raw tokens call for: -1 for junk, else the next index
RECURSIVE ExpectedMarkers(_, _)
ExpectedMarkers(raw, next) ==
    IF raw = <<>> THEN <<>>
    ELSE IF _is_junk_token(Head(raw).value)
         THEN <<-1>> \o ExpectedMarkers(Tail(raw), next)
         ELSE <<next>> \o ExpectedMarkers(Tail(raw), next + 1)

\* C10 (as amended): a token whose extracted value, before trimming, equals a junk
\* word is absent from the token list and leaves one {junk} marker at its slot;
\* each surviving non-path token has one placeholder {tokenK}, K its index in
\* the token list, in the same order; an empty string gives an empty pattern
\* and no tokens.
C10_TokenizerOutput ==
    pc = "tokenized" =>
        /\ Markers(res.pattern) = ExpectedMarkers(RawTokens, 0)
        /\ PlaceholderIndices(res.pattern) = Iota(Len(NonPath(res.tokens)))
        /\ cleaned = "" => res.pattern = "" /\ res.tokens = <<>>

\* one junk token dropped, one token kept
C10_Witness ==
    /\ pc = "tokenized"
    /\ Markers(res.pattern) = <<-1, 0>>
    /\ Len(res.tokens) = 1

\* C10 as stated: no token of the output has a value equal to a junk word.
C10_NoJunkValueSurvives ==
    pc = "tokenized" => \A i \in 1..Len(res.tokens) : ~_is_junk_token(res.tokens[i].value)

(***************************************************************************)
(* Properties of Trimmer.trim                                              *)
(***************************************************************************)
\* C8: whenever trim(s) and trim(trim(s)) both return, they return the same string.
C8_TrimIdempotent == trPc = "ret2" => trCur = trFirst

\* the first call removed something, left something, and the second call looped
C8_Witness ==
    /\ trPc = "ret2"
    /\ trFirst # trText
    /\ trFirst # ""
    /\ trPasses >= 1

\* C9 as stated (termination): a pass of the while loop that asks for another pass
\* has made the string shorter.
C9_EveryRepeatedPassShortens ==
    [][(trPc \in {"loop1", "loop2"} /\ trPasses' = trPasses + 1 /\ trChanged')
           => Len(trCur') < Len(trCur)]_vars

(***************************************************************************)
(* Properties of rule-table loading                                        *)
(***************************************************************************)
\* C7 as stated: a stage constructed while its table's file cannot be opened or
\* parsed is constructed without an exception and with an empty rule set.
C7_FailedLoadGivesEmptyRules ==
    built.failed => built.raised = None /\ built.rules = "empty"

(***************************************************************************)
(* Properties of PreTokenizer.process                                      *)
(***************************************************************************)
\* the last step of process() applied category preCat - 1 to prePrev
CategoryApplied == prePc \in {"categories", "trim"} /\ preCat >= 2

\* s without the characters of the spans [starts[k], starts[k] + n)
RECURSIVE DeleteSpans(_, _, _, _)
DeleteSpans(s, starts, n, i) ==
    IF i >= Len(s) THEN ""
    ELSE (IF \E k \in 1..Len(starts) : starts[k] <= i /\ i < starts[k] + n
          THEN "" ELSE Char(s, i))
         \o DeleteSpans(s, starts, n, i + 1)

RemovedOf(name) == SelectSeq(preRemoved, LAMBDA t : t.category = name)

\* C11: after the removal step of a category, the cleaned string is the
\* step's input with exactly the spans of the marker's word-boundary-safe
\* occurrences deleted, then stripped, and the removed-token list holds one
\* entry per occurrence whose value is the removed text, however many
\* occurrences the input has.
C11_RemovesExactlyMatchedSpans ==
    CategoryApplied =>
        LET category == EarlyRemovalCategories[preCat - 1]
            starts == MarkerStarts(prePrev, category.marker, 0)
        IN  /\ preCleaned =
                 Strip(DeleteSpans(prePrev, starts, Len(category.marker), 0))
            /\ Len(RemovedOf(category.name)) = Len(starts)
            /\ \A k \in 1..Len(RemovedOf(category.name)) :
                   RemovedOf(category.name)[k].value = category.marker

\* s with every whitespace-adjacent underscore deleted and every other
\* underscore replaced by a space
RECURSIVE UnderscoresHandled(_, _)
UnderscoresHandled(s, i) ==
    IF i >= Len(s) THEN ""
    ELSE (IF AdjacentUnderscore(s, i) THEN ""
          ELSE IF Char(s, i) = "_" THEN " "
          ELSE Char(s, i))
         \o UnderscoresHandled(s, i + 1)

HasReviewFlag == \E k \in 1..Len(preRemoved) : preRemoved[k] = ReviewFlag

\* C12: after the underscore step every underscore of the step's input has
\* been deleted (whitespace on either side) or replaced by a space
\* (otherwise), so the cleaned string holds no underscore; the removed-token
\* list holds a REVIEW_FLAG entry exactly when an underscore of the input
\* touched whitespace.
C12_NoUnderscoreLeft ==
    prePc = "extension" =>
        /\ preCleaned = UnderscoresHandled(prePrev, 0)
        /\ ~Contains(preCleaned, "_")
        /\ HasReviewFlag <=>
               \E i \in 0..(Len(prePrev) - 1) : AdjacentUnderscore(prePrev, i)

(***************************************************************************)
(* Properties of the stages, checked over StageSpec                       *)
(***************************************************************************)
\* the rule that matched the token value normalises to nothing
NormalizationFails(value) ==
    DateMatchOf(value, 1).found /\ DateMatchOf(value, 1).normalized_date = None

HasToken(tokens, t) == \E j \in 1..Len(tokens) : tokens[j] = t

\* C13: when a date rule matches inside a token and normalising the match
\* fails (the month name is not in the month table), DateExtractor discards
\* the candidate: the token is still there with its type and value, no date
\* token holds the matched text, and when no other token yields a date the
\* result, pattern included, is the one the stage received.
C13_FailedNormalizationDiscarded ==
    pc = "dated" =>
        /\ \A i \in 1..Len(prev.tokens) :
               (prev.tokens[i].type # "path" /\ NormalizationFails(prev.tokens[i].value))
               => /\ HasToken(res.tokens, prev.tokens[i])
                  /\ ~\E j \in 1..Len(res.tokens) :
                         /\ res.tokens[j].type = "date"
                         /\ res.tokens[j].value = DateMatchOf(prev.tokens[i].value, 1).date_str
        /\ (\A i \in 1..Len(prev.tokens) :
               prev.tokens[i].type # "path" /\ DateMatchOf(prev.tokens[i].value, 1).found
               => NormalizationFails(prev.tokens[i].value))
           => res = prev

\* the relationship of the rule lets it match when the stage is entered
\* with this studio
RuleActive(rule, studio) ==
    rule.studio_relationship = "requires"
    => (Truthy(studio) /\ Lower(studio) = Lower(rule.studio))

\* the rule's pattern matches the token value and yields this code
RuleYields(rule, value, code) ==
    /\ CodeRegexMatch(rule, Strip(value)) # -1
    /\ code = _normalize_code(
                  Slice(Strip(value), 0, CodeRegexMatch(rule, Strip(value))),
                  rule.normalize)

\* the tokens StudioCodeFinder looks at
CodeCandidates(tokens) ==
    {i \in 1..Len(tokens) : tokens[i].type \notin {"path", "studio"}}

\* C14: a studio_code token comes from a rule whose relationship admits the
\* studio the stage was entered with: a requires rule only when that studio
\* is set and equals the rule's owner case-insensitively, a can_set rule
\* whatever the studio is (the first rule, can_set, always claims the tokens
\* its pattern matches); the stage changes result.studio only from unset to
\* the owner of a can_set rule that matched.
C14_RelationshipGatesCodeRules ==
    pc = "coded" =>
        /\ \A j \in 1..Len(res.tokens) :
               res.tokens[j].type = "studio_code"
               => \E i \in CodeCandidates(prev.tokens), k \in 1..Len(StudioCodePatterns) :
                      /\ RuleActive(StudioCodePatterns[k], prev.studio)
                      /\ RuleYields(StudioCodePatterns[k], prev.tokens[i].value,
                                    res.tokens[j].value)
        /\ \A i \in CodeCandidates(prev.tokens) :
               (/\ StudioCodePatterns[1].studio_relationship = "can_set"
                /\ CodeRegexMatch(StudioCodePatterns[1], Strip(prev.tokens[i].value)) # -1)
               => \E j \in 1..Len(res.tokens) :
                      /\ res.tokens[j].type = "studio_code"
                      /\ res.tokens[j].position = prev.tokens[i].position
                      /\ RuleYields(StudioCodePatterns[1], prev.tokens[i].value,
                                    res.tokens[j].value)
        /\ res.studio # prev.studio
           => /\ ~Truthy(prev.studio)
              /\ \E i \in CodeCandidates(prev.tokens), k \in 1..Len(StudioCodePatterns) :
                     /\ StudioCodePatterns[k].studio_relationship = "can_set"
                     /\ StudioCodePatterns[k].studio = res.studio
                     /\ CodeRegexMatch(StudioCodePatterns[k],
                                       Strip(prev.tokens[i].value)) # -1

\* a requires rule matched under a studio spelled in another case
C14_Witness ==
    /\ pc = "coded"
    /\ prev.studio = "scary"
    /\ res.studio = "scary"
    /\ \E j \in 1..Len(res.tokens) :
           res.tokens[j].type = "studio_code" /\ res.tokens[j].value = "8492"

\* a can_set rule matches although the studio is set to another studio, and
\* does not replace it
C14_WitnessCanSet ==
    /\ pc = "coded"
    /\ prev.studio = "Other"
    /\ res.studio = "Other"
    /\ \E j \in 1..Len(res.tokens) :
           res.tokens[j].type = "studio_code" /\ res.tokens[j].value = "AC1234"

\* the words of the names a name-list shape yields
NameWords(names) ==
    UNION { {Words(names[k], 0)[j] : j \in 1..Len(Words(names[k], 0))}
            : k \in 1..Len(names) }

\* the conditions under which a value is a performer list: some name-list
\* shape matches the normalized value and yields at least two names, no
\* word of a name is a stop word, and every word has 2 to 20 characters
IsPerformerList(value) ==
    LET normalized == Strip(_normalize_performer_list(value))
    IN  \E k \in 1..Len(PerformerPatterns) :
            /\ PerformerRegexMatch(k, normalized)
            /\ Len(_extract_performer_names(PerformerPatterns[k], normalized)) >= 2
            /\ \A word \in NameWords(_extract_performer_names(PerformerPatterns[k], normalized)) :
                   /\ Lower(word) \notin NonPerformerWords
                   /\ Len(word) >= 2
                   /\ Len(word) <= 20

\* no word of the value starts with a capital letter
NoCapital(value) == \A i \in 0..(Len(value) - 1) : ~IsUpper(Char(value, i))

\* C15: PerformerMatcher retypes a token performers only if its normalized
\* value is a performer list (shape, at least 2 names, no stop word, words of
\* 2 to 20 characters), and an unclaimed token that is one is retyped
\* whatever its capitalization.
C15_PerformerListAccepted ==
    pc = "performers" =>
        /\ Len(res.tokens) = Len(prev.tokens)
        /\ \A i \in 1..Len(prev.tokens) :
               (res.tokens[i].type = "performers" /\ prev.tokens[i].type # "performers")
               <=> (/\ prev.tokens[i].type \notin
                          {"path", "studio", "studio_code", "date", "performers"}
                    /\ IsPerformerList(prev.tokens[i].value))

\* a list written without any capital letter was accepted
C15_Witness ==
    /\ pc = "performers"
    /\ \E i \in 1..Len(prev.tokens) :
           /\ prev.tokens[i].type = "text"
           /\ NoCapital(prev.tokens[i].value)
           /\ res.tokens[i].type = "performers"

\* what pass 1 of the final stage (labeled extraction) leaves of the result
\* the stage received: [tokens, sequence, group]
AfterLabels(result) ==
    _extract_labeled_sequences(
        [tokens |-> result.tokens, sequence |-> result.sequence,
         group |-> result.group], 1)

\* indices of the tokens no stage has claimed and that are not blank
Unclaimed(tokens) ==
    {i \in 1..Len(tokens) :
        /\ tokens[i].type \notin
               {"path", "date", "studio", "studio_code", "performers", "sequence"}
        /\ Strip(tokens[i].value) # ""}

NumericUnclaimed(tokens) ==
    {i \in Unclaimed(tokens) : AllDigits(Strip(tokens[i].value))}

\* the unclaimed token next to token n on the given side has a word of two
\* or more letters
WordBefore(tokens, n) ==
    \E b \in Unclaimed(tokens) :
        /\ b < n
        /\ \A j \in Unclaimed(tokens) : j < n => j <= b
        /\ _is_meaningful_text(Strip(tokens[b].value))

WordAfter(tokens, n) ==
    \E a \in Unclaimed(tokens) :
        /\ a > n
        /\ \A j \in Unclaimed(tokens) : j > n => j >= a
        /\ _is_meaningful_text(Strip(tokens[a].value))

\* the conditions for inferring a scene number from the unlabeled number n
SceneInferable(lab, n) ==
    /\ "scene" \notin DOMAIN lab.sequence
    /\ NumericUnclaimed(lab.tokens) = {n}
    /\ Len(Strip(lab.tokens[n].value)) <= 3
    /\ WordBefore(lab.tokens, n)
    /\ WordAfter(lab.tokens, n)

InferredFrom(lab, out) ==
    /\ \A n \in 1..Len(lab.tokens) :
           SceneInferable(lab, n)
           => /\ "scene" \in DOMAIN out.sequence
              /\ out.sequence["scene"] = ParseInt(Strip(lab.tokens[n].value))
              /\ out.tokens[n].type = "sequence"
    /\ (~\E n \in 1..Len(lab.tokens) : SceneInferable(lab, n))
       => /\ out.sequence = lab.sequence
          /\ \A n \in NumericUnclaimed(lab.tokens) : out.tokens[n] = lab.tokens[n]

\* C16: the final stage records sequence["scene"] from an unlabeled number
\* and retypes that token sequence when, and only when, labeled extraction
\* set no scene key, exactly one unclaimed token is purely numeric, it has at
\* most 3 digits, and the unclaimed tokens right before and right after it
\* each hold a word of at least 2 letters; otherwise the sequence is the one
\* labeled extraction left and every unclaimed numeric token keeps its type
\* and value.
C16_BareSceneNumber ==
    (pc = "done" /\ prev.tokens # <<>>) => InferredFrom(AfterLabels(prev), res)

\* a scene number was inferred from a token between two words
C16_Witness ==
    /\ pc = "done"
    /\ "scene" \notin DOMAIN prev.sequence
    /\ "scene" \in DOMAIN res.sequence
    /\ \E n \in 1..Len(prev.tokens) :
           /\ prev.tokens[n].type = "text"
           /\ AllDigits(prev.tokens[n].value)
           /\ res.tokens[n].type = "sequence"
           /\ res.sequence["scene"] = ParseInt(prev.tokens[n].value)

\* what passes 1 and 2 of the final stage leave: [tokens, sequence, group]
AfterInference(lab) ==
    [tokens   |-> _infer_bare_scene_numbers(
                      [tokens |-> lab.tokens, sequence |-> lab.sequence]).tokens,
     sequence |-> _infer_bare_scene_numbers(
                      [tokens |-> lab.tokens, sequence |-> lab.sequence]).sequence,
     group    |-> lab.group]

\* the unclaimed tokens that hold a word of two or more letters
MeaningfulUnclaimed(tokens) ==
    {i \in Unclaimed(tokens) : _is_meaningful_text(Strip(tokens[i].value))}

\* the number of the first key, in the order scene, episode, part, volume,
\* disc, that the sequence has; <<>> when it has none
NumberByPriority(sequence) ==
    IF "scene" \in DOMAIN sequence THEN <<sequence["scene"]>>
    ELSE IF "episode" \in DOMAIN sequence THEN <<sequence["episode"]>>
    ELSE IF "part" \in DOMAIN sequence THEN <<sequence["part"]>>
    ELSE IF "volume" \in DOMAIN sequence THEN <<sequence["volume"]>>
    ELSE IF "disc" \in DOMAIN sequence THEN <<sequence["disc"]>>
    ELSE <<>>

\* the title when no title token remains
SynthesizedTitle(tokens, sequence, group) ==
    IF Truthy(group) /\ NumberByPriority(sequence) # <<>>
    THEN group \o ", Scene " \o ToString(NumberByPriority(sequence)[1])
    ELSE _title_from_performers(tokens)

FinalizedFrom(p2, out) ==
    LET M == MeaningfulUnclaimed(p2.tokens)
    IN  IF p2.group = None /\ Cardinality(M) >= 2
        THEN /\ out.tokens[FirstIn(M)].type = "group"
             /\ out.group = _clean_text(p2.tokens[FirstIn(M)].value)
             /\ \A i \in M \ {FirstIn(M)} : out.tokens[i].type = "title"
             /\ \A i \in (1..Len(p2.tokens)) \ M : out.tokens[i] = p2.tokens[i]
        ELSE /\ out.group = p2.group
             /\ \A i \in M : out.tokens[i].type = "title"
             /\ \A i \in (1..Len(p2.tokens)) \ M : out.tokens[i] = p2.tokens[i]
             /\ M = {} => out.title = SynthesizedTitle(p2.tokens, p2.sequence, p2.group)

AfterProcess == {"dated", "studio", "dash", "partial", "coded", "performers", "done"}

C18_WitnessEarlier == pc = "performers" /\ res # prev /\ arg = prev

(***************************************************************************)
(* Properties of concurrent parses                                         *)
(***************************************************************************)
\* C19: a parse reads no file and writes no shared state, and it ends with
\* the result it has when it runs alone, whatever other parses,
\* load_dictionary calls and clear_cache calls run between its steps.
C19_ParsesIndependent ==
    \A p \in Parses :
        /\ parIO[p] = {}
        /\ parRaised[p] = None
        /\ parPc[p] = "done" => parCleaned[p] = ProcessAlone(parIn[p])

(***************************************************************************)
(* Properties of the batch updates                                         *)
(***************************************************************************)
\* the updates bulk_update_scenes received
SentUpdates == IF batSent = None THEN {} ELSE { batSent[i] : i \in DOMAIN batSent }

\* the item of the batch an update was prepared from
ItemOf(u) == CHOOSE item \in { batIn[k] : k \in DOMAIN batIn } : item.id = u.id

\* the studio id the server gives for a name, None if it knows none
ResolvedId(studio_name) ==
    IF Strip(studio_name) = "" THEN None ELSE FindStudioId(Strip(studio_name))

Unresolvable(item) == NeedsResolution(item) /\ ResolvedId(item.studio_name) = None

PreparationFailed(item) ==
    \E i \in DOMAIN batErrors :
        batErrors[i].scene_id = item.id /\ batErrors[i].type = "preparation"

\* an item with an unresolvable name and another field went out, or its
\* lookup raised
UnresolvableStillSent ==
    batPc = "done" /\ ~batDry =>
        \A k \in DOMAIN batIn :
            Unresolvable(batIn[k]) /\ batIn[k].title # Absent =>
                \/ \E u \in SentUpdates :
                      /\ u.id = batIn[k].id
                      /\ u.title = batIn[k].title
                      /\ u.studio_id = Absent
                \/ PreparationFailed(batIn[k])

C20_WitnessUnresolvable ==
    /\ batPc = "done"
    /\ \E u \in SentUpdates :
          /\ Unresolvable(ItemOf(u))
          /\ u.title = "T"
          /\ u.studio_id = Absent

(***************************************************************************)
(* Properties of metadata_to_update                                        *)
(***************************************************************************)
\* C21: when the original scene is given, the update never has studio_name,
\* title, date or code where the original has a studio, or a title, date or
\* code with a character that is not white space; this holds after every
\* iteration, for every parsed metadata and every approved_fields list.
C21_NeverOverwrites ==
    mtuPc \in {"fields", "done"} /\ mtuOriginal # NoScene =>
        /\ mtuOriginal.studio # None => mtuUpdate.studio_name = Absent
        /\ HasText(mtuOriginal.title) => mtuUpdate.title = Absent
        /\ HasText(mtuOriginal.date) => mtuUpdate.date = Absent
        /\ HasText(mtuOriginal.code) => mtuUpdate.code = Absent

\* all four fields were approved and parsed; the original had a title and a
\* date only, and the update brings the studio and the code only
C21_Witness ==
    /\ mtuPc = "done"
    /\ mtuOriginal # NoScene
    /\ Len(mtuApproved) = 4
    /\ mtuParsed = [studio |-> "S", title |-> "T", date |-> "D", studio_code |-> "C"]
    /\ mtuOriginal.title = "Old" /\ mtuOriginal.date = "Old"
    /\ mtuUpdate.title = Absent /\ mtuUpdate.date = Absent
    /\ mtuUpdate.studio_name = "S" /\ mtuUpdate.code = "C"

(***************************************************************************)
(* Properties of process_updates and process_updates_parallel              *)
(***************************************************************************)
RECURSIVE SumOver(_, _)
SumOver(f, S) ==
    IF S = {} THEN 0
    ELSE LET k == CHOOSE k \in S : TRUE IN f[k] + SumOver(f, S \ {k})

RunBatches == 1..BatchCount(Len(runIn), runSize)

BatchFailed(k) == runLog[k].how \in {"api raised", "escaped"}

C22_WitnessParallel ==
    /\ runPc = "batches"
    /\ runMode = "parallel"
    /\ runLeft = {1}
    /\ 2 \in DOMAIN runLog /\ runLog[2].how = "escaped"

\* C29: when process_updates or process_updates_parallel has returned,
\* successful_updates + failed_updates + skipped_scenes equals total_scenes,
\* whatever bulk_update_scenes raised or returned.
C29_EverySceneCountedOnce ==
    runPc = "done" =>
        runCounts.successful + runCounts.failed + runCounts.skipped = Len(runIn)

(***************************************************************************)
(* The date split, token by token                                          *)
(***************************************************************************)
\* a token as the claims see it: its value and its type
ValueType(token) == [value |-> token.value, type |-> token.type]

ValueTypes(tokens) == [i \in 1..Len(tokens) |-> ValueType(tokens[i])]

\* what takes the place of one token: the text before the date, the date, the
\* text after it, an empty remainder left out; a token without a date stays
PartsOf(token) ==
    LET dm == DateMatchOf(token.value, 1)
    IN  IF token.type = "path" \/ ~dm.found THEN <<ValueType(token)>>
        ELSE LET before == Strip(Slice(token.value, 0, dm.start))
                 after  == Strip(From(token.value, dm.end))
                 date   == IF dm.normalized_date \notin {None, ""}
                           THEN dm.normalized_date ELSE dm.date_str
             IN  (IF before # "" THEN <<[value |-> before, type |-> token.type]>> ELSE <<>>)
                 \o <<[value |-> date, type |-> "date"]>>
                 \o (IF after # "" THEN <<[value |-> after, type |-> token.type]>> ELSE <<>>)

\* the parts that take the place of each token of a list, token by token
PartsPer(tokens, P(_)) == [k \in 1..Len(tokens) |-> P(tokens[k])]

RECURSIVE Flat(_, _)
Flat(parts, k) == IF k > Len(parts) THEN <<>> ELSE parts[k] \o Flat(parts, k + 1)

\* the placeholders of the parts of one token, joined by sep, the first part
\* at index `at`: a claimed part shows its type, a generic part its index
RECURSIVE PartPlaceholders(_, _, _, _)
PartPlaceholders(parts, k, at, sep) ==
    IF k > Len(parts) THEN ""
    ELSE (IF k > 1 THEN sep ELSE "")
         \o (IF parts[k].type \in GenericTypes THEN Placeholder(at + k - 1)
             ELSE "{" \o parts[k].type \o "}")
         \o PartPlaceholders(parts, k + 1, at, sep)

\* the pattern read left to right, each numbered placeholder {tokenK} giving
\* way to the placeholders of the parts of non-path token K at their new indices
RECURSIVE Redesignated(_, _, _)
Redesignated(pattern, parts, sep) ==
    LET i == Find(pattern, "{token", 0)
    IN  IF i = -1 THEN pattern
        ELSE LET n == DigitRun(pattern, i + 6)
                 e == i + 6 + n
                 K == ParseInt(Slice(pattern, i + 6, e))
             IN  IF n >= 1 /\ e < Len(pattern) /\ Char(pattern, e) = "}" /\ K < Len(parts)
                 THEN Slice(pattern, 0, i)
                      \o PartPlaceholders(parts[K + 1], 1,
                                          Len(Flat(SubSeq(parts, 1, K), 1)), sep)
                      \o Redesignated(From(pattern, e + 1), parts, sep)
                 ELSE Slice(pattern, 0, i + 1)
                      \o Redesignated(From(pattern, i + 1), parts, sep)

DateTokenCount(tokens) == Len(SelectSeq(tokens, LAMBDA t : t.type = "date"))

\* C23: DateExtractor puts, in place of each token that holds a date, the text
\* before the date, the date and the text after it (an empty remainder left
\* out, the remainders keeping the token's type) and leaves every other token
\* as it was; in the pattern the token's placeholder gives way to the matching
\* placeholders and every numbered placeholder carries the index its token
\* now has, so the numbered placeholders still follow the generic tokens.
C23_DateSplitInPlace ==
    pc = "dated" =>
        /\ ValueTypes(res.tokens) = Flat(PartsPer(prev.tokens, PartsOf), 1)
        /\ res.pattern = Redesignated(prev.pattern, PartsPer(NonPath(prev.tokens), PartsOf), " ")
        /\ SlotsFollowTokens(res)

\* two tokens held a date and were split, and a placeholder after the first of
\* them carries an index that no token had before
C23_Witness ==
    /\ pc = "dated"
    /\ DateTokenCount(res.tokens) >= 2
    /\ Len(res.tokens) > Len(prev.tokens)
    /\ \E i \in 1..Len(PlaceholderIndices(res.pattern)) :
          PlaceholderIndices(res.pattern)[i] >= Len(NonPath(prev.tokens))
    /\ res.pattern = Redesignated(prev.pattern, PartsPer(NonPath(prev.tokens), PartsOf), " ")

\* a token split in three, text on both sides of the date
C23_WitnessThree ==
    /\ pc = "dated"
    /\ \E k \in 1..Len(prev.tokens) : Len(PartsOf(prev.tokens[k])) = 3
    /\ ValueTypes(res.tokens) = Flat(PartsPer(prev.tokens, PartsOf), 1)

(***************************************************************************)
(* The dash split of the studio fallback                                   *)
(***************************************************************************)
\* the halves of a token split at its first un-spaced hyphen, the half that is
\* a known studio as a studio token and the other as a text token; a token
\* that is not split stays
DashPartsOf(token) ==
    IF token.type = "path" \/ DashStudioPart(token) = -1 THEN <<ValueType(token)>>
    ELSE LET parts == DashSplitOf(token)
         IN  [k \in 1..Len(parts) |->
                 [value |-> parts[k].value,
                  type  |-> IF parts[k].is_studio THEN "studio" ELSE "text"]]

\* the dash fallback split a token of the result it received
DashSplitActed ==
    /\ pc = "dash"
    /\ ~Truthy(prev.studio)
    /\ prev.pattern # ""
    /\ \E k \in 1..Len(prev.tokens) : DashStudioPart(prev.tokens[k]) # -1

\* each numbered placeholder occurs exactly once in the pattern
OccursOnce(pattern) ==
    \A i, j \in 1..Len(PlaceholderIndices(pattern)) :
        PlaceholderIndices(pattern)[i] = PlaceholderIndices(pattern)[j] => i = j

\* the token list after the dash split: the studio half and the text half in
\* the place of the split token, every other token as it was
C24_DashSplitTokens ==
    DashSplitActed => ValueTypes(res.tokens) = Flat(PartsPer(prev.tokens, DashPartsOf), 1)

\* C24: after the dash fallback has split a token, the split token's
\* placeholder is the two placeholders joined by "-", every other numbered
\* placeholder carries its token's new index, and each numbered placeholder
\* occurs once and designates the token it designated before the split.
C24_DashSplitKeepsDesignation ==
    DashSplitActed =>
        /\ ValueTypes(res.tokens) = Flat(PartsPer(prev.tokens, DashPartsOf), 1)
        /\ res.pattern = Redesignated(prev.pattern, PartsPer(NonPath(prev.tokens), DashPartsOf), "-")
        /\ OccursOnce(res.pattern)
        /\ SlotsFollowTokens(res)

\* the same when no token stands after the split token
C24_LastTokenSplit ==
    (DashSplitActed /\ DashStudioPart(prev.tokens[Len(prev.tokens)]) # -1
        /\ \A k \in 1..(Len(prev.tokens) - 1) : DashStudioPart(prev.tokens[k]) = -1)
    => /\ res.pattern = Redesignated(prev.pattern, PartsPer(NonPath(prev.tokens), DashPartsOf), "-")
       /\ OccursOnce(res.pattern)

(***************************************************************************)
(* The substring split of the studio fallback                              *)
(***************************************************************************)
\* the keys the substring fallback may match in a token value: at least three
\* characters, not exact-only, found in the lower-cased value
MinKeyLen == 3

EligibleKeys(value) ==
    {k \in 1..Len(Studios) :
        /\ Len(Studios[k].key) >= MinKeyLen
        /\ Studios[k].key \notin ExactOnlyKeys
        /\ Contains(Lower(value), Studios[k].key)}

\* the keys of maximal length among them
LongestKeys(value) ==
    {k \in EligibleKeys(value) :
        \A j \in EligibleKeys(value) : Len(Studios[j].key) <= Len(Studios[k].key)}

\* prefix / studio / suffix of a value around the first occurrence of key k
SubstringPartsAround(value, k) ==
    LET key    == Studios[k].key
        pos    == Find(Lower(value), key, 0)
        prefix == Strip(Slice(value, 0, pos))
        suffix == Strip(From(value, pos + Len(key)))
    IN  (IF prefix # "" THEN <<[value |-> prefix, type |-> "text"]>> ELSE <<>>)
        \o <<[value |-> Studios[k].canonical, type |-> "studio"]>>
        \o (IF suffix # "" THEN <<[value |-> suffix, type |-> "text"]>> ELSE <<>>)

\* what the code puts in the place of one token
SubstringPartsOf(token) ==
    IF token.type = "path" \/ SubstringSplitOf(token) = <<>> THEN <<ValueType(token)>>
    ELSE LET parts == SubstringSplitOf(token)
         IN  [k \in 1..Len(parts) |->
                 [value |-> parts[k].value,
                  type  |-> IF parts[k].is_studio THEN "studio" ELSE "text"]]

\* the substring fallback ran on the result it received
SubstringRan == pc = "partial" /\ ~Truthy(prev.studio) /\ prev.tokens # <<>> /\ prev.pattern # ""

\* the key choice and the split: a text token with an eligible key is split
\* around a key of maximal length, every other token stays
C25_LongestEligibleKey ==
    SubstringRan =>
        /\ \A i \in 1..Len(prev.tokens) :
              LET t == prev.tokens[i]
              IN  IF t.type = "text" /\ EligibleKeys(t.value) # {}
                  THEN \E k \in LongestKeys(t.value) :
                          SubstringPartsOf(t) = SubstringPartsAround(t.value, k)
                  ELSE SubstringPartsOf(t) = <<ValueType(t)>>
        /\ ValueTypes(res.tokens) = Flat(PartsPer(prev.tokens, SubstringPartsOf), 1)

\* C25: the substring fallback splits a text token around a key of maximal
\* length among the keys of at least 3 characters that are not exact-only and
\* occur in the lower-cased value, into prefix / studio / suffix with empty
\* parts dropped, and the placeholders of the resulting tokens stand in the
\* pattern, with no separator, where the token's placeholder stood.
C25_SubstringSplit ==
    SubstringRan =>
        /\ \A i \in 1..Len(prev.tokens) :
              LET t == prev.tokens[i]
              IN  IF t.type = "text" /\ EligibleKeys(t.value) # {}
                  THEN \E k \in LongestKeys(t.value) :
                          SubstringPartsOf(t) = SubstringPartsAround(t.value, k)
                  ELSE SubstringPartsOf(t) = <<ValueType(t)>>
        /\ ValueTypes(res.tokens) = Flat(PartsPer(prev.tokens, SubstringPartsOf), 1)
        /\ res.pattern = Redesignated(prev.pattern,
                                      PartsPer(NonPath(prev.tokens), SubstringPartsOf), "")

\* a token was split by the substring fallback, a prefix before the studio
C25_WitnessSplit ==
    /\ SubstringRan
    /\ \E i \in 1..Len(prev.tokens) : Len(SubstringPartsOf(prev.tokens[i])) = 2
    /\ Truthy(res.studio)

(***************************************************************************)
(* The split of StudioCodeFinder                                           *)
(***************************************************************************)
\* the rule match of a token as process() looks for it
CodeMatchOf(token, studio) ==
    IF token.type \in {"path", "studio"} THEN [found |-> FALSE]
    ELSE _match_studio_code(token.value, studio)

\* what takes the place of one token: the normalized code and, when the value
\* goes on after the code, the remainder as a text token
CodePartsOf(token, studio) ==
    LET m == CodeMatchOf(token, studio)
    IN  IF ~m.found THEN <<ValueType(token)>>
        ELSE LET remainder == _extract_suffix_after_code(token.value, m.code_end)
             IN  <<[value |-> m.code, type |-> "studio_code"]>>
                 \o (IF remainder # None THEN <<[value |-> remainder, type |-> "text"]>>
                     ELSE <<>>)

CodePartsPer(tokens, studio) == [k \in 1..Len(tokens) |-> CodePartsOf(tokens[k], studio)]

\* StudioCodeFinder matched a token of the result it received
CodeMatched ==
    /\ pc = "coded"
    /\ prev.pattern # ""
    /\ \E k \in 1..Len(prev.tokens) : CodeMatchOf(prev.tokens[k], prev.studio).found

\* how many times a marker stands in a pattern
RECURSIVE CountOf(_, _)
CountOf(pattern, marker) ==
    LET i == Find(pattern, marker, 0)
    IN  IF i = -1 THEN 0 ELSE 1 + CountOf(From(pattern, i + Len(marker)), marker)

TypeCount(tokens, type) == Len(SelectSeq(tokens, LAMBDA t : t.type = type))

\* the tokens after StudioCodeFinder: code and remainder in the place of the
\* matched token, every other token as it was
C26_CodeSplitTokens ==
    CodeMatched => ValueTypes(res.tokens) = Flat(CodePartsPer(prev.tokens, prev.studio), 1)

\* the pattern after StudioCodeFinder when the pattern it received had the
\* numbered placeholders of the generic tokens and every matched token was generic
C26_GenericTokenRecoded ==
    (CodeMatched
        /\ SlotsFollowTokens(prev)
        /\ \A k \in 1..Len(prev.tokens) :
              CodeMatchOf(prev.tokens[k], prev.studio).found
                  => prev.tokens[k].type \in GenericTypes)
    => res.pattern = Redesignated(prev.pattern,
                                  CodePartsPer(NonPath(prev.tokens), prev.studio), " ")
       /\ CountOf(res.pattern, "{studio_code}") = TypeCount(res.tokens, "studio_code")
       /\ SlotsFollowTokens(res)

\* a token with a remainder was matched before another token
C26_WitnessRemainder ==
    /\ CodeMatched
    /\ SlotsFollowTokens(prev)
    /\ Len(res.tokens) > Len(prev.tokens)
    /\ res.tokens[Len(res.tokens)].type = "text"
    /\ res.tokens[Len(res.tokens)] = prev.tokens[Len(prev.tokens)]
    /\ \A k \in 1..Len(prev.tokens) : prev.tokens[k].type # "date"

\* C26: when a studio-code rule matches a token, a studio_code token with the
\* normalized code, followed by a text token with the remainder when there is
\* one, takes the token's place; in the pattern the token's placeholder is
\* {studio_code} (followed by the remainder's numbered placeholder) and every
\* numbered placeholder carries its token's new index.
C26_CodeSplitKeepsDesignation ==
    CodeMatched =>
        /\ ValueTypes(res.tokens) = Flat(CodePartsPer(prev.tokens, prev.studio), 1)
        /\ res.pattern = Redesignated(prev.pattern,
                                      CodePartsPer(NonPath(prev.tokens), prev.studio), " ")
        /\ CountOf(res.pattern, "{studio_code}") = TypeCount(res.tokens, "studio_code")
        /\ (SlotsFollowTokens(prev) => SlotsFollowTokens(res))

(***************************************************************************)
(* The labeled-sequence pass of the final stage                            *)
(***************************************************************************)
SequenceKeys == {"scene", "part", "episode", "volume", "disc"}

\* the match that ends last, the later start breaking a tie
Rightmost(ms) ==
    CHOOSE m \in {ms[j] : j \in 1..Len(ms)} :
        \A j \in 1..Len(ms) :
            ms[j].end < m.end \/ (ms[j].end = m.end /\ ms[j].start <= m.start)

\* what the pass reads in one token: its marker matches left to right (none
\* for a claimed or blank token and for a code shaped like sc####), the key of
\* the rightmost match, and the text before and after that match with
\* markers and trim strings removed
LabelsOf(token) ==
    LET ms == IF \/ token.type \in ConsumedTypes
                 \/ Strip(token.value) = ""
                 \/ IsSeanCodyCode(Strip(token.value))
              THEN <<>>
              ELSE _find_labeled_sequences(token.value)
    IN  IF ms = <<>> THEN [ms |-> <<>>, key |-> None, prefix |-> "", suffix |-> ""]
        ELSE [ms     |-> ms,
              key    |-> Rightmost(ms).key,
              prefix |-> _clean_text(_remove_sequence_markers(
                             Strip(Slice(token.value, 0, Rightmost(ms).start)))),
              suffix |-> _clean_text(_remove_sequence_markers(
                             Strip(From(token.value, Rightmost(ms).end))))]

RECURSIVE LabelsFrom(_, _)
LabelsFrom(tokens, k) ==
    IF k > Len(tokens) THEN <<>> ELSE <<LabelsOf(tokens[k])>> \o LabelsFrom(tokens, k + 1)

PrefixOnly(l) == l.ms # <<>> /\ l.prefix # "" /\ l.suffix = ""

MarkerOnly(l) == l.ms # <<>> /\ l.prefix = "" /\ l.suffix = ""

\* the number of the last match of a key in a list of matches
LastNumber(ms, key) ==
    ms[CHOOSE j \in 1..Len(ms) :
          ms[j].key = key /\ \A l \in (j + 1)..Len(ms) : ms[l].key # key].number

LastIn(S) == CHOOSE i \in S : \A j \in S : j <= i

\* the tokens whose matches hold the key
HoldersOf(labels, key) ==
    {i \in 1..Len(labels) : \E j \in 1..Len(labels[i].ms) : labels[i].ms[j].key = key}

\* the tokens that may give the group: a prefix before a group marker
GroupGivers(labels) ==
    {i \in 1..Len(labels) : labels[i].prefix # "" /\ labels[i].key \in GroupMarkers}

LabeledFrom(p, labels, lab, out) ==
    /\ \A key \in SequenceKeys :
          IF HoldersOf(labels, key) # {}
          THEN /\ key \in DOMAIN lab.sequence
               /\ lab.sequence[key] = LastNumber(labels[LastIn(HoldersOf(labels, key))].ms, key)
          ELSE /\ key \in DOMAIN lab.sequence <=> key \in DOMAIN p.sequence
               /\ key \in DOMAIN p.sequence => lab.sequence[key] = p.sequence[key]
    /\ \A i \in 1..Len(labels) :
          /\ (PrefixOnly(labels[i]) /\ labels[i].key \in GroupMarkers)
             => /\ lab.tokens[i].type = "sequence"
                /\ out.tokens[i].type = "sequence"
                /\ (p.group = None /\ \A j \in GroupGivers(labels) : j >= i)
                   => lab.group = labels[i].prefix
          /\ (PrefixOnly(labels[i]) /\ labels[i].key = "part")
             => /\ lab.tokens[i].type = p.tokens[i].type
                /\ lab.tokens[i].value = labels[i].prefix
                /\ out.tokens[i].type # "sequence"
          /\ MarkerOnly(labels[i])
             => /\ lab.tokens[i].type = "sequence"
                /\ out.tokens[i].type = "sequence"
          /\ labels[i].ms = <<>> => lab.tokens[i] = p.tokens[i]
    /\ (p.group # None \/ GroupGivers(labels) = {}) => lab.group = p.group
    /\ (p.group = None /\ GroupGivers(labels) # {})
       => lab.group = labels[FirstIn(GroupGivers(labels))].prefix

\* C27: in the labeled-sequence pass of the final stage, for each unclaimed
\* token not shaped like sc####, every marker match updates the sequence map,
\* the last match winning per key; by the rightmost match, a token with only
\* a prefix and a scene, volume, episode or disc marker is retyped sequence
\* and, when it is the first such token and no group is set, gives the group
\* its prefix; a token with only a prefix and a part marker keeps its type
\* with the prefix as value; a token that is only a marker is retyped sequence.
C27_LabeledSequences ==
    (pc = "done" /\ prev.tokens # <<>>)
    => LabeledFrom(prev, LabelsFrom(prev.tokens, 1), AfterLabels(prev), res)

WitnessLabels(labels, out) ==
    \E i, j, l \in 1..Len(labels) :
        /\ PrefixOnly(labels[i]) /\ labels[i].key = "scene" /\ Len(labels[i].ms) >= 2
        /\ out.group = labels[i].prefix
        /\ out.tokens[i].type = "sequence"
        /\ PrefixOnly(labels[j]) /\ labels[j].key = "part"
        /\ out.tokens[j].type = "title"
        /\ MarkerOnly(labels[l])
        /\ out.tokens[l].type = "sequence"

\* one filename with a group from a prefix before a scene marker that follows a
\* part marker, a prefix before a part marker kept as title text, and a marker alone
C27_Witness ==
    /\ pc = "done"
    /\ Len(prev.tokens) = 3
    /\ WitnessLabels(LabelsFrom(prev.tokens, 1), res)

(***************************************************************************)
(* The pattern after the final stage                                       *)
(***************************************************************************)
\* a token as the title pass sees it: retyped title or not
TitlePartOf(token) ==
    <<[value |-> token.value, type |-> IF token.type = "title" THEN "title" ELSE "text"]>>

\* the final stage ran on a result with tokens and a pattern
FinalRan == pc = "done" /\ prev.tokens # <<>> /\ prev.pattern # ""

\* the pattern after the final stage when the pattern it received had the
\* numbered placeholders of the generic tokens
C28_TitleInWellFormedPattern ==
    (FinalRan /\ SlotsFollowTokens(prev))
    => /\ res.pattern = Redesignated(prev.pattern, PartsPer(NonPath(res.tokens), TitlePartOf), "")
       /\ CountOf(res.pattern, "{title}") = TypeCount(res.tokens, "title")

\* C28: after the final stage the pattern is the pattern the stage received
\* with {title} in the place of the numbered placeholder of each token
\* retyped title, one {title} per title token, and nothing else changed (a
\* token retyped group or sequence keeps its numbered placeholder).
C28_TitleAtTitleTokens ==
    FinalRan
    => /\ res.pattern = Redesignated(prev.pattern, PartsPer(NonPath(res.tokens), TitlePartOf), "")
       /\ CountOf(res.pattern, "{title}") = TypeCount(res.tokens, "title")

\* a title token after a group token that keeps its numbered placeholder
C28_WitnessGroupKept ==
    /\ FinalRan /\ SlotsFollowTokens(prev)
    /\ TypeCount(res.tokens, "group") = 1
    /\ TypeCount(res.tokens, "title") >= 1
    /\ CountOf(res.pattern, "{title}") = TypeCount(res.tokens, "title")
    /\ PlaceholderIndices(res.pattern) # <<>>

(***************************************************************************)
(* The retries of call_graphql                                             *)
(***************************************************************************)
GqlDone == gqlPc \in {"returned", "raised"}

\* the delays slept after the first n failed attempts
RECURSIVE Backoff(_)
Backoff(n) == IF n = 0 THEN <<>> ELSE Append(Backoff(n - 1), RetryDelay * Pow2(n - 1))

GqlFailedBefore(n) == \A k \in 1..n : gqlLog[k] \in GqlFailures

GqlBounded ==
    /\ Len(gqlLog) <= MaxRetries
    /\ gqlAttempt < MaxRetries
    /\ gqlPc = "try" =>
          /\ Len(gqlLog) = gqlAttempt
          /\ GqlFailedBefore(Len(gqlLog))
          /\ gqlSleeps = Backoff(Len(gqlLog))
    /\ gqlPc = "sleep" =>
          /\ Len(gqlLog) = gqlAttempt + 1
          /\ Len(gqlLog) < MaxRetries
          /\ GqlFailedBefore(Len(gqlLog))
          /\ gqlSleeps = Backoff(Len(gqlLog) - 1)
    /\ gqlPc = "returned" =>
          /\ gqlLog # <<>>
          /\ gqlLog[Len(gqlLog)] \in GqlSuccesses
          /\ GqlFailedBefore(Len(gqlLog) - 1)
          /\ gqlResult = GqlData(gqlLog[Len(gqlLog)])
          /\ gqlSleeps = Backoff(Len(gqlLog) - 1)
    /\ gqlPc = "raised" =>
          /\ Len(gqlLog) = MaxRetries
          /\ GqlFailedBefore(MaxRetries)
          /\ gqlResult = "RuntimeError: GraphQL query failed after retries"
          /\ gqlSleeps = Backoff(MaxRetries - 1)

\* C30: call_graphql makes at most max_retries (3) requests and always comes
\* to an end: it returns the data of the first request that succeeds and makes
\* no request after it, it sleeps retry_delay * 2^attempt (1 s, then 2 s)
\* between two requests and never after the last one, and when the last
\* request fails too it raises RuntimeError.
C30_BoundedRetries == []GqlBounded /\ <>GqlDone /\ [][GqlDone => UNCHANGED gqlVars]_vars

\* a call that succeeds at the third request, after sleeping 1 s and 2 s
C30_Witness ==
    /\ gqlPc = "returned"
    /\ Len(gqlLog) = MaxRetries
    /\ gqlSleeps = <<RetryDelay, 2 * RetryDelay>>

\* a call that gives up: three failed requests, two sleeps, RuntimeError
C30_WitnessRaised ==
    /\ gqlPc = "raised"
    /\ Len(gqlLog) = MaxRetries
    /\ Len(gqlSleeps) = MaxRetries - 1

====
